---- MODULE Spec2Model ----
(***************************************************************************)
(* The OLED display subsystem of kitronik_air_quality (src/main.ts):       *)
(* the bus command layer, the 1025-byte framebuffer, pixel and shape       *)
(* primitives, the text renderer with its word wrap, the graph plotter     *)
(* and the lazy controller initialisation.                                 *)
(*                                                                         *)
(* A public call runs to completion (the subsystem is synchronous), so     *)
(* every public function is one action.  The functions of the source are   *)
(* operators that take the module-level state as a record m and return     *)
(* the record after the call; an action applies one of them to the         *)
(* current state.  With(v, F) is "let e = v in F(e)" with v evaluated      *)
(* once; statements in sequence become nested With.                        *)
(*                                                                         *)
(* Optional arguments: an omitted argument is the value -1 ("undefined");  *)
(* texts are sequences of character codes.                                 *)
(***************************************************************************)
EXTENDS Integers, Sequences, FiniteSets, TLC

VARIABLES
    displayAddress,   \* bus address the next write goes to
    initialised,      \* 0 / 1: the lazy-initialisation flag
    screenBuf,        \* the framebuffer: byte i of the source is element i + 1
    plotArray,        \* graph sample sequence
    graphYMin,        \* graph scale, lower bound
    graphYMax,        \* graph scale, upper bound
    previousYPlot,    \* mapped row of the previous column, <<numerator, denominator>>
    present,          \* environment: the bus addresses at which a controller acknowledges
    bus,              \* observation: the bus writes of the most recent public call, in order
    initEnd,          \* observation: position in bus of the last write of a lazily run initDisplay (0: none ran)
    errorShown,       \* observation: basic.showString("ERROR - no display") ran in that call
    lines,            \* observation: the output lines show rendered in that call
    wasInit,          \* observation: initialised at entry of that call
    prevBuf,          \* observation: screenBuf at entry of that call
    prevMin,          \* observation: graphYMin at entry of that call
    prevMax,          \* observation: graphYMax at entry of that call
    recent,           \* observation: the most recent public calls (at most three), oldest first
    calls,            \* number of public calls made so far
    signal,           \* environment: which waveform the plotted quantity follows
    nPlots,           \* number of plot calls made so far
    alarmHour,        \* the hour setting for the alarm
    alarmMin,         \* the minute setting for the alarm
    alarmSetFlag,     \* 1 when an alarm is set
    alarmRepeat,      \* 1: the alarm re-arms for the next time match
    alarmOff,         \* 1: auto silence, 2: user silence
    alarmTriggered,   \* 1 when the alarm has been triggered
    alarmHandler,     \* TRUE once onAlarmTrigger registered a handler
    simpleCheck,      \* 1 once simpleAlarmCheck has been called
    rtc,              \* environment: <<hour, minute>> the clock chip reports
    pollers,          \* background loops of simpleAlarmSet at their loop test
    paused,           \* checkMin of each backgroundAlarmCheck in its basic.pause(2500)
    waiters,          \* background tasks waiting for the minute to change to re-arm
    offTimers,        \* background tasks of simpleAlarmCheck in their basic.pause(2500)
    halted,           \* the program stopped on a call of the unset alarmHandler
    polled,           \* observation: the most recent backgroundAlarmCheck
    delimiter,        \* the separator put after each logged value
    inc,              \* the include flags incDate .. incLight, by column heading
    dataEntry,        \* the entry string logData builds
    entryNum,         \* number of the next data entry
    writeTitles,      \* TRUE once the titles have been stored
    dataFull,         \* TRUE once entry 999 has been written
    comms,            \* NONE / USB
    eepromBlocks,     \* the memory blocks 21 .. : block number -> stored string
    eepromBytes,      \* the two bytes at 12 * 128 and 12 * 128 + 1
    serialWrites,     \* observation: the strings the most recent sendAllData wrote to serial
    nLogs,            \* number of logData calls made so far
    logOp             \* observation: the most recent data logging call

vars == <<displayAddress, initialised, screenBuf, plotArray, graphYMin, graphYMax,
          previousYPlot, present, bus, initEnd, errorShown, lines, wasInit, prevBuf,
          prevMin, prevMax, recent, calls, signal, nPlots,
          alarmHour, alarmMin, alarmSetFlag, alarmRepeat, alarmOff, alarmTriggered,
          alarmHandler, simpleCheck, rtc, pollers, paused, waiters, offTimers, halted, polled,
          delimiter, inc, dataEntry, entryNum, writeTitles, dataFull, comms, eepromBlocks,
          eepromBytes, serialWrites, nLogs, logOp>>

displayVars ==
    <<displayAddress, initialised, screenBuf, plotArray, graphYMin, graphYMax,
      previousYPlot, present, bus, initEnd, errorShown, lines, wasInit, prevBuf,
      prevMin, prevMax, recent, calls, signal, nPlots>>

alarmVars ==
    <<alarmHour, alarmMin, alarmSetFlag, alarmRepeat, alarmOff, alarmTriggered,
      alarmHandler, simpleCheck, rtc, pollers, paused, waiters, offTimers, halted, polled>>

logVars ==
    <<delimiter, inc, dataEntry, entryNum, writeTitles, dataFull, comms, eepromBlocks,
      eepromBytes, serialWrites, nLogs, logOp>>

----------------------------------------------------------------------------
(* Program constants *)

NUMBER_OF_CHAR_PER_LINE == 26
DISPLAY_ADDR_1 == 60
DISPLAY_ADDR_2 == 10
GRAPH_Y_MIN_LOCATION == 63
GRAPH_Y_MAX_LOCATION == 20
SCREEN_BUF_LEN == 1025
PLOT_CAPACITY == 127
I2C_NOT_ACKED == 0 - 1010

----------------------------------------------------------------------------
(* Number and buffer primitives of the platform *)

With(v, F(_)) == CHOOSE r \in {F(e) : e \in {v}} : TRUE

Min(a, b) == IF a < b THEN a ELSE b
Max(a, b) == IF a > b THEN a ELSE b

\* JavaScript !v for a number or undefined
Falsy(v) == v = -1 \/ v = 0

RECURSIVE BitOr(_, _)
BitOr(a, b) ==
    IF a = 0 THEN b
    ELSE IF b = 0 THEN a
    ELSE 2 * BitOr(a \div 2, b \div 2) + (IF a % 2 = 1 \/ b % 2 = 1 THEN 1 ELSE 0)

RECURSIVE BitAnd(_, _)
BitAnd(a, b) ==
    IF a = 0 \/ b = 0 THEN 0
    ELSE 2 * BitAnd(a \div 2, b \div 2) + (IF a % 2 = 1 /\ b % 2 = 1 THEN 1 ELSE 0)

Shl(b) == 2 ^ b

\* d & (1 << b) is not zero
TestBit(d, b) == (d \div Shl(b)) % 2 = 1

\* A Buffer is the sequence of its bytes: buf[i] of the source is element
\* i + 1.  Element read and write: an index outside the buffer reads 0 and
\* a write to it is dropped
BufGet(buf, i) == IF i >= 0 /\ i < Len(buf) THEN buf[i + 1] ELSE 0
BufSet(buf, i, v) == IF i >= 0 /\ i < Len(buf) THEN [buf EXCEPT ![i + 1] = v % 256] ELSE buf

\* pins.createBuffer(1025) / screenBuf.fill(0)
ZeroBuf == [i \in 1 .. SCREEN_BUF_LEN |-> 0]

\* Buffer.slice(offset, length) of the platform: a copy of length bytes from
\* offset on, as far as the buffer has them (a negative length: all of them)
Slice(buf, offset, length) ==
    With(Min(Len(buf), Max(offset, 0)), LAMBDA from :
    With(IF length < 0 THEN Len(buf) - from ELSE Min(length, Len(buf) - from), LAMBDA n :
    SubSeq(buf, from + 1, from + n)))

\* pins.i2cWriteBuffer: the write is put on the bus; the result is the
\* not-acknowledged sentinel when no controller answers at the address
I2cStatus(addr) == IF addr \in present THEN 0 ELSE I2C_NOT_ACKED
i2cWriteBuffer(m, addr, bytes) ==
    [m EXCEPT !.bus = Append(@, [addr |-> addr, data |-> bytes])]

----------------------------------------------------------------------------
(* Bus command layer *)

writeOneByte(m, regValue) == i2cWriteBuffer(m, m.displayAddress, <<0, regValue>>)

writeTwoByte(m, regValue1, regValue2) ==
    i2cWriteBuffer(m, m.displayAddress, <<0, regValue1, regValue2>>)

writeThreeByte(m, regValue1, regValue2, regValue3) ==
    i2cWriteBuffer(m, m.displayAddress, <<0, regValue1, regValue2, regValue3>>)

set_pos(m, col, page) ==
    With(writeOneByte(m, BitOr(176, page)), LAMBDA m1 :
    With(writeOneByte(m1, BitOr(0, col % 16)), LAMBDA m2 :
    writeOneByte(m2, BitOr(16, col \div 16))))

\* A clearBit that zeroes the whole byte
clearBitWholeByte(d, b) == 0

clearBit(d, b) == IF TestBit(d, b) THEN d - Shl(b) ELSE d

setScreenAddr(selection) ==
    IF selection = 1 THEN DISPLAY_ADDR_1
    ELSE IF selection = 2 THEN DISPLAY_ADDR_2
    ELSE DISPLAY_ADDR_1

----------------------------------------------------------------------------
(* Display controller lifecycle *)

\* The configuration sequence of initDisplay, one entry per write call
ConfigSequence ==
    << <<174>>, <<164>>, <<213, 240>>, <<168, 63>>, <<211, 0>>, <<0>>,
       <<141, 20>>, <<32, 0>>, <<33, 0, 127>>, <<34, 0, 63>>, <<161>>, <<200>>,
       <<218, 18>>, <<129, 207>>, <<217, 241>>, <<219, 64>>, <<166>>,
       <<214, 0>>, <<175>> >>

\* The writeOneByte / writeTwoByte / writeThreeByte calls of initDisplay,
\* all made with the same displayAddress
writeConfig(m) ==
    [m EXCEPT !.bus = @ \o [k \in 1 .. Len(ConfigSequence) |->
                              [addr |-> m.displayAddress, data |-> <<0>> \o ConfigSequence[k]]]]

\* clear() from "screenBuf.fill(0)" on: the body after the lazy-initialisation test
\* A clear that leaves byte 0 of the zeroed buffer at 0
clearBodyNoMarker(m) ==
    With([m EXCEPT !.screenBuf = ZeroBuf], LAMBDA m1 :
    With(set_pos(m1, 0, 0), LAMBDA m2 :
    i2cWriteBuffer(m2, m2.displayAddress, m2.screenBuf)))

clearBody(m) ==
    With([m EXCEPT !.screenBuf = BufSet(ZeroBuf, 0, 64)], LAMBDA m1 :
    With(set_pos(m1, 0, 0), LAMBDA m2 :
    i2cWriteBuffer(m2, m2.displayAddress, m2.screenBuf)))

\* initDisplay(screen); its call of clear() finds initialised = 1, so it
\* runs displayAddress = setScreenAddr(undefined) and the body of clear
initDisplay(m, screen) ==
    With([m EXCEPT !.displayAddress = setScreenAddr(screen)], LAMBDA m1 :
    With(i2cWriteBuffer(m1, m1.displayAddress, <<0, 175>>), LAMBDA m2 :
    IF I2cStatus(m1.displayAddress) = I2C_NOT_ACKED
    THEN [m2 EXCEPT !.errorShown = TRUE]
    ELSE With(writeConfig(m2), LAMBDA m3 :
         With([m3 EXCEPT !.initialised = 1, !.displayAddress = setScreenAddr(-1)], LAMBDA m4 :
         clearBody(m4)))))

\* The head of every public display function:
\*   displayAddress = setScreenAddr(screen); if (initialised == 0) initDisplay(arg)
\* A lazy initialisation that runs whenever the selected address changes
lazyInitPerAddress(m, screen, arg) ==
    With([m EXCEPT !.displayAddress = setScreenAddr(screen)], LAMBDA m1 :
    IF m1.initialised = 0 \/ m1.displayAddress # m.displayAddress
    THEN With(initDisplay(m1, arg), LAMBDA m2 : [m2 EXCEPT !.initEnd = Len(m2.bus)])
    ELSE m1)

lazyInit(m, screen, arg) ==
    With([m EXCEPT !.displayAddress = setScreenAddr(screen)], LAMBDA m1 :
    IF m1.initialised = 0
    THEN With(initDisplay(m1, arg), LAMBDA m2 : [m2 EXCEPT !.initEnd = Len(m2.bus)])
    ELSE m1)

clear(m, screen) == With(lazyInit(m, screen, 1), LAMBDA m1 : clearBody(m1))

refresh(m, screen) ==
    With(lazyInit(m, screen, 1), LAMBDA m1 :
    With(set_pos(m1, 0, 0), LAMBDA m2 :
    i2cWriteBuffer(m2, m2.displayAddress, m2.screenBuf)))

\* An invert that also clears the display
invertWithClear(m, output, screen) ==
    With(clear(m, screen), LAMBDA m1 :
    writeOneByte(m1, IF output THEN 167 ELSE 166))

invert(m, output, screen) ==
    With(lazyInit(m, screen, 1), LAMBDA m1 :
    writeOneByte(m1, IF output THEN 167 ELSE 166))

controlDisplayOnOff(m, displayOutput, screen) ==
    With(lazyInit(m, screen, 1), LAMBDA m1 :
    IF displayOutput THEN writeOneByte(m1, 175) ELSE writeOneByte(m1, 174))

----------------------------------------------------------------------------
(* Pixel primitives *)

\* An index that forgets the marker byte at the head of the buffer
PixelIndexNoMarker(x, y) == x + (y \div 8) * 128

\* ind = x + page * 128 + 1 with page = y >> 3
PixelIndex(x, y) == x + (y \div 8) * 128 + 1

setPixel(m, x, y, screen) ==
    With(lazyInit(m, screen, -1), LAMBDA m1 :
    With(BitOr(BufGet(m1.screenBuf, PixelIndex(x, y)), Shl(y % 8)), LAMBDA screenPixel :
    With([m1 EXCEPT !.screenBuf = BufSet(@, PixelIndex(x, y), screenPixel)], LAMBDA m2 :
    With(set_pos(m2, x, y \div 8), LAMBDA m3 :
    i2cWriteBuffer(m3, m3.displayAddress, <<64, screenPixel>>)))))

clearPixel(m, x, y, screen) ==
    With(lazyInit(m, screen, 1), LAMBDA m1 :
    With(clearBit(BufGet(m1.screenBuf, PixelIndex(x, y)), y % 8), LAMBDA screenPixel2 :
    With([m1 EXCEPT !.screenBuf = BufSet(@, PixelIndex(x, y), screenPixel2)], LAMBDA m2 :
    With(set_pos(m2, x, y \div 8), LAMBDA m3 :
    i2cWriteBuffer(m3, m3.displayAddress, <<64, screenPixel2>>)))))

----------------------------------------------------------------------------
(* Shape primitives *)

\* for (hPixel = from; hPixel < to; hPixel++) setPixel(hPixel, y, screen),
\* evaluated by halves
RECURSIVE setPixelsH(_, _, _, _, _)
setPixelsH(m, from, to, y, screen) ==
    IF to <= from THEN m
    ELSE IF to = from + 1 THEN setPixel(m, from, y, screen)
    ELSE With(setPixelsH(m, from, (from + to) \div 2, y, screen), LAMBDA m1 :
         setPixelsH(m1, (from + to) \div 2, to, y, screen))

\* for (vPixel = from; vPixel < to; vPixel++) setPixel(x, vPixel, screen)
RECURSIVE setPixelsV(_, _, _, _, _)
setPixelsV(m, from, to, x, screen) ==
    IF to <= from THEN m
    ELSE IF to = from + 1 THEN setPixel(m, x, from, screen)
    ELSE With(setPixelsV(m, from, (from + to) \div 2, x, screen), LAMBDA m1 :
         setPixelsV(m1, (from + to) \div 2, to, x, screen))

\* A vertical length that is not limited
VerticalLenUnclamped(len) == len

\* The vertical length drawLine uses
VerticalLen(len) == IF len >= 64 THEN 63 ELSE len

\* lineDirection: 0 = horizontal, 1 = vertical
drawLine(m, lineDirection, len, x, y, screen) ==
    IF lineDirection = 0 THEN setPixelsH(m, x, x + len, y, screen)
    ELSE IF lineDirection = 1 THEN setPixelsV(m, y, y + VerticalLen(len), x, screen)
    ELSE m

\* A rectangle drawn as its rows, border and interior
drawRectFilled(m, width, height, x, y, screen) ==
    With(drawLine(m, 0, width, x, y, screen), LAMBDA m1 :
    With(drawLine(m1, 0, width, x, y + 1, screen), LAMBDA m2 :
    With(drawLine(m2, 0, width, x, (y + height) - 1, screen), LAMBDA m3 :
    With(drawLine(m3, 1, height, x, y, screen), LAMBDA m4 :
    drawLine(m4, 1, height, (x + width) - 1, y, screen)))))

drawRect(m, width, height, x, y, screen) ==
    With(IF Falsy(x) THEN 0 ELSE x, LAMBDA x0 :
    With(IF Falsy(y) THEN 0 ELSE y, LAMBDA y0 :
    With(drawLine(m, 0, width, x0, y0, screen), LAMBDA m1 :
    With(drawLine(m1, 0, width, x0, (y0 + height) - 1, screen), LAMBDA m2 :
    With(drawLine(m2, 1, height, x0, y0, screen), LAMBDA m3 :
    drawLine(m3, 1, height, (x0 + width) - 1, y0, screen))))))

----------------------------------------------------------------------------
(* Glyph table: font[c] is element c + 1 *)

font ==
    <<
       2282530, 2282530, 2282530, 2282530, 2282530, 2282530, 2282530, 2282530,
       2282530, 2282530, 2282530, 2282530, 2282530, 2282530, 2282530, 2282530,
       2282530, 2282530, 2282530, 2282530, 2282530, 2282530, 2282530, 2282530,
       2282530, 2282530, 2282530, 2282530, 2282530, 2282530, 2282530, 2282530,
       0, 736, 98400, 11512810, 11458282, 26808627, 17127082, 96,
       17856, 14880, 332096, 145536, 8704, 135296, 256, 1118480,
       476718, 556608, 612025, 382505, 9413964, 10147511, 9099912, 1152305,
       11196074, 2274978, 320, 10752, 567424, 338240, 141856, 2282530,
       14997038, 988350, 349887, 575022, 476735, 579263, 38079, 13289006,
       1020063, 18417, 1558057, 567455, 541215, 32575583, 32772191, 476718,
       70847, 746790, 17110207, 317106, 1113121, 508431, 7618823, 32772383,
       888987, 1142849, 577209, 575456, 17043521, 1033760, 66624, 17318416,
       2080, 17779276, 283295, 608844, 1036936, 612014, 38852, 513698,
       790687, 928, 442880, 534687, 541152, 31527006, 919646, 412236,
       141662, 993604, 67676, 76432, 17453536, 17777166, 6570246, 31990302,
       602514, 2237074, 613202, 588928, 992, 5105, 8654976, 2282530
    >>

\* Row l of column k of a glyph: if (charDisplayBytes & (1 << (5 * k + l))) col |= (1 << (l + 1))
GlyphBit(charDisplayBytes, k, l) ==
    IF TestBit(charDisplayBytes, 5 * k + l) THEN Shl(l + 1) ELSE 0

\* The column byte show builds for column k of a glyph (the five bits are distinct)
GlyphCol(charDisplayBytes, k) ==
    GlyphBit(charDisplayBytes, k, 0) + GlyphBit(charDisplayBytes, k, 1)
    + GlyphBit(charDisplayBytes, k, 2) + GlyphBit(charDisplayBytes, k, 3)
    + GlyphBit(charDisplayBytes, k, 4)

----------------------------------------------------------------------------
(* Text renderer *)

SpaceChar == 32

\* String.substr(start, length)
substr(s, start, length) ==
    IF length <= 0 \/ start >= Len(s) THEN << >>
    ELSE SubSeq(s, start + 1, Min(start + length, Len(s)))

\* The positions (from 0) at which inputString.charAt(spaceFinder) == " "
\* holds, in the order the space-finder loop meets them; charAt at the
\* length of the string is the empty string
SpacePositions(s) ==
    SelectSeq([i \in 1 .. Len(s) |-> i - 1], LAMBDA p : s[p + 1] = SpaceChar)

\* The body of the space-finder loop of show at a space
WrapStep(w, s, spacePoint) ==
    IF (spacePoint - w.startOfString) < NUMBER_OF_CHAR_PER_LINE
    THEN IF spacePoint = Len(s) - 1
         THEN [w EXCEPT !.previousSpacePoint = spacePoint,
                        !.stringArray = Append(@, substr(s, w.startOfString, spacePoint))]
         ELSE [w EXCEPT !.previousSpacePoint = spacePoint]
    ELSE IF (spacePoint - w.startOfString) > NUMBER_OF_CHAR_PER_LINE
    THEN [w EXCEPT !.stringArray = Append(@, substr(s, w.startOfString, w.previousSpacePoint)),
                   !.startOfString = w.previousSpacePoint + 1]
    ELSE [w EXCEPT !.stringArray = Append(@, substr(s, w.startOfString, spacePoint)),
                   !.startOfString = spacePoint + 1,
                   !.previousSpacePoint = spacePoint]

\* The space-finder loop, from the j-th space on
RECURSIVE WrapLoop(_, _, _, _)
WrapLoop(w, s, spaces, j) ==
    IF j > Len(spaces) THEN w
    ELSE With(WrapStep(w, s, spaces[j]), LAMBDA w1 : WrapLoop(w1, s, spaces, j + 1))

\* A split that wraps on every row
SplitLinesAlwaysWrap(inputString, y) ==
    IF Len(inputString) > NUMBER_OF_CHAR_PER_LINE
    THEN With(SpacePositions(inputString), LAMBDA spaces :
         WrapLoop([previousSpacePoint |-> 0, startOfString |-> 0, stringArray |-> << >>],
                  inputString, spaces, 1).stringArray)
    ELSE << inputString >>

\* "Sort text into lines": stringArray for inputString (the text with the
\* appended space) started on row y
SplitLines(inputString, y) ==
    IF Len(inputString) > NUMBER_OF_CHAR_PER_LINE
    THEN IF y = 7
         THEN << substr(inputString, 0, NUMBER_OF_CHAR_PER_LINE - 1) >>
         ELSE With(SpacePositions(inputString), LAMBDA spaces :
              WrapLoop([previousSpacePoint |-> 0, startOfString |-> 0, stringArray |-> << >>],
                       inputString, spaces, 1).stringArray)
    ELSE << inputString >>

\* Math.round(n / 2)
RoundHalf(n) == (n + 1) \div 2

\* An alignment that centres every line
AlignXCentred(x, inputLen, align, displayLen, textLine) ==
    RoundHalf(NUMBER_OF_CHAR_PER_LINE - displayLen)

\* The start column, in character cells, of output line textLine
\* (align: 0 = Left, 1 = Centre, 2 = Right); x is the column left by the line before
AlignX(x, inputLen, align, displayLen, textLine) ==
    IF inputLen < (NUMBER_OF_CHAR_PER_LINE - 1)
    THEN IF align = 0 THEN 0
         ELSE IF align = 1 THEN RoundHalf(NUMBER_OF_CHAR_PER_LINE - displayLen)
         ELSE IF align = 2 THEN (NUMBER_OF_CHAR_PER_LINE - displayLen - 1) + textLine
         ELSE x
    ELSE x

\* ind of the glyph loops: (x + charOfString) * 5 + y * 128 + k + 1
GlyphIndex(x, y, charOfString, k) == (x + charOfString) * 5 + y * 128 + k + 1

\* The column bytes the glyph loops of one output line produce, in the
\* order they are stored: column k of character c is element 5 * c + k + 1
GlyphBytes(displayString) ==
    [n \in 1 .. 5 * Len(displayString) |->
        GlyphCol(font[displayString[((n - 1) \div 5) + 1] + 1], (n - 1) % 5) % 256]

\* screenBuf after the glyph loops of one output line: the glyph bytes are
\* stored at the consecutive indices GlyphIndex(x, y, 0, 0) ..
\* GlyphIndex(x, y, Len - 1, 4); those outside the buffer are dropped
Rasterise(buf, displayString, x, y) ==
    With(GlyphIndex(x, y, 0, 0), LAMBDA first :
    With(Min(5 * Len(displayString), Len(buf) - first), LAMBDA stored :
    IF stored <= 0 THEN buf
    ELSE SubSeq(buf, 1, first) \o SubSeq(GlyphBytes(displayString), 1, stored)
         \o SubSeq(buf, first + stored + 1, Len(buf))))

\* An ind that stops at the last column of the character before the last
LastIndBeforeSpace(x, y, displayLen, ind) ==
    IF displayLen = 0 THEN ind ELSE GlyphIndex(x, y, displayLen - 2, 4)

\* ind after the glyph loops of a line (unchanged when the line is empty)
LastInd(x, y, displayLen, ind) ==
    IF displayLen = 0 THEN ind ELSE GlyphIndex(x, y, displayLen - 1, 4)

\* The bytes show sends for a line: screenBuf.slice(ind02, ind + 1), that is
\* ind + 1 bytes from ind02 on, with element 0 overwritten by 0x40
LinePayload(buf, ind02, ind) ==
    With(Slice(buf, ind02, ind + 1), LAMBDA buf2 :
    IF Len(buf2) > 0 THEN [buf2 EXCEPT ![1] = 64] ELSE buf2)

\* One pass of the per-line loop of show; r carries x, y and ind across lines
ShowLine(m, r, displayString, textLine, inputLen, align) ==
    With(AlignX(r.x, inputLen, align, Len(displayString), textLine), LAMBDA x :
    With(LastInd(x, r.y, Len(displayString), r.ind), LAMBDA ind :
    With([m EXCEPT !.screenBuf = Rasterise(@, displayString, x, r.y)], LAMBDA m1 :
    With(set_pos(m1, x * 5, r.y), LAMBDA m2 :
    With(i2cWriteBuffer(m2, m2.displayAddress,
                        LinePayload(m2.screenBuf, x * 5 + r.y * 128, ind)), LAMBDA m3 :
    [m |-> [m3 EXCEPT !.lines = Append(@, [row |-> r.y, x |-> x, text |-> displayString])],
     r |-> [x |-> x, y |-> r.y + 1, ind |-> ind]])))))

\* for (textLine = 0; textLine <= numberOfStrings - 1; textLine++) ...
RECURSIVE ShowLines(_, _, _, _, _)
ShowLines(mr, stringArray, textLine, inputLen, align) ==
    IF textLine > Len(stringArray) - 1 THEN mr.m
    ELSE With(ShowLine(mr.m, mr.r, stringArray[textLine + 1], textLine, inputLen, align),
              LAMBDA next : ShowLines(next, stringArray, textLine + 1, inputLen, align))

\* inputData is the text convertToText yields
show(m, inputData, line, displayShowAlign, screen) ==
    With(inputData \o <<SpaceChar>>, LAMBDA inputString :
    With(lazyInit(m, screen, 1), LAMBDA m1 :
    With(IF Falsy(displayShowAlign) THEN 0 ELSE displayShowAlign, LAMBDA align :
    With(IF Falsy(line) THEN 0 ELSE line - 1, LAMBDA y :
    With(SplitLines(inputString, y), LAMBDA stringArray :
    ShowLines([m |-> m1, r |-> [x |-> 0, y |-> y, ind |-> 0]],
              stringArray, 0, Len(inputString), align))))))

\* The 26 spaces clearLine shows
ClearLineText == [i \in 1 .. 26 |-> SpaceChar]

clearLine(m, line, screen) ==
    With(lazyInit(m, screen, 1), LAMBDA m1 : show(m1, ClearLineText, line, -1, -1))

----------------------------------------------------------------------------
(* Graph plotter *)

\* Math.round of a value given in quarters (plot(q / 4))
MathRound(q) == (q + 2) \div 4

\* A plot that never drops the oldest sample
PlotShiftNever(arr) == arr

\* The capacity test and plotArray.shift() of plot
PlotShift(arr) == IF Len(arr) = PLOT_CAPACITY THEN Tail(arr) ELSE arr

\* A scale whose upper bound never follows the samples
ScaleMaxFixed(plotVariable, yMax) == yMax

\* The two scale updates of plot
ScaleMax(plotVariable, yMax) == IF plotVariable > yMax THEN plotVariable ELSE yMax
ScaleMin(plotVariable, yMin) == IF plotVariable < yMin THEN plotVariable ELSE yMin

\* Mapped rows are fractions <<numerator, denominator>> with the denominator
\* graphYMax - graphYMin; <<0, 0>> is NaN.
IsNaN(q) == q[2] = 0

\* pins.map(value, fromLow, fromHigh, toLow, toHigh) ==
\*   ((value - fromLow) * (toHigh - toLow)) / (fromHigh - fromLow) + toLow
PinsMap(value, fromLow, fromHigh, toLow, toHigh) ==
    << (value - fromLow) * (toHigh - toLow) + toLow * (fromHigh - fromLow),
       fromHigh - fromLow >>

\* yPlot of the redraw loop at arrayPosition.  plotArray[arrayPosition] past
\* the end of the array is a read outside the array: the build yields either
\* undefined (NaN once mapped) or 0.
YPlot(arr, arrayPosition, yMin, yMax, oob) ==
    IF arrayPosition < Len(arr)
    THEN PinsMap(arr[arrayPosition + 1], yMin, yMax, GRAPH_Y_MIN_LOCATION, GRAPH_Y_MAX_LOCATION)
    ELSE IF oob = "zero"
    THEN PinsMap(0, yMin, yMax, GRAPH_Y_MIN_LOCATION, GRAPH_Y_MAX_LOCATION)
    ELSE <<0, 0>>

\* previousYPlot when the loop handles arrayPosition
PrevYPlot(arr, arrayPosition, yMin, yMax, oob) ==
    IF arrayPosition = 0 THEN YPlot(arr, 0, yMin, yMax, oob)
    ELSE YPlot(arr, arrayPosition - 1, yMin, yMax, oob)

\* y3 and len of one column: the three-way comparison of yPlot and
\* previousYPlot (every comparison with NaN is false)
Segment(yPlot, prev) ==
    IF IsNaN(yPlot) \/ IsNaN(prev) THEN [y3 |-> yPlot, len |-> <<1, 1>>]
    ELSE IF yPlot[1] < prev[1] THEN [y3 |-> yPlot, len |-> <<prev[1] - yPlot[1], yPlot[2]>>]
    ELSE IF yPlot[1] > prev[1] THEN [y3 |-> prev, len |-> <<yPlot[1] - prev[1], yPlot[2]>>]
    ELSE [y3 |-> yPlot, len |-> <<1, 1>>]

\* The rows the "plot new data" loop sets: pixel runs y3, y3 + 1, ... while
\* pixel < y3 + len, and the bit operations truncate pixel to an integer
SegmentRows(seg) ==
    IF IsNaN(seg.y3) THEN {}
    ELSE (seg.y3[1] \div seg.y3[2]) ..
         ((seg.y3[1] \div seg.y3[2]) + ((seg.len[1] + seg.len[2] - 1) \div seg.len[2]) - 1)

\* The bits of the byte of a page whose rows lie in rows
RowBit(page, b, rows) == IF (page * 8 + b) \in rows THEN Shl(b) ELSE 0
RowMask(page, rows) ==
    RowBit(page, 0, rows) + RowBit(page, 1, rows) + RowBit(page, 2, rows)
    + RowBit(page, 3, rows) + RowBit(page, 4, rows) + RowBit(page, 5, rows)
    + RowBit(page, 6, rows) + RowBit(page, 7, rows)

\* The rows the "clear plots" loop of plot clears in a column
ClearedRows == GRAPH_Y_MAX_LOCATION .. GRAPH_Y_MIN_LOCATION

\* One framebuffer byte of a redrawn column: clearBit for every row of
\* ClearedRows in the page, then the bit of every row of rows set
ColumnByte(d, page, rows) ==
    BitOr(d - BitAnd(d, RowMask(page, ClearedRows)), RowMask(page, rows))

\* The upper limit of the redraw loop: for (arrayPosition = 0; arrayPosition <= plotLength; ...)
RedrawLast(plotLength) == plotLength

\* The rows set in column arrayPosition
ColumnRows(arr, arrayPosition, yMin, yMax, oob) ==
    SegmentRows(Segment(YPlot(arr, arrayPosition, yMin, yMax, oob),
                        PrevYPlot(arr, arrayPosition, yMin, yMax, oob)))

\* screenBuf after the redraw loop.  Column arrayPosition only touches the
\* bytes arrayPosition + page * 128 + 1, so the columns are independent;
\* byte i of the buffer is element i + 1.
RedrawPage(buf, page, rows) ==
    [c \in 1 .. Len(rows) |-> ColumnByte(buf[1 + page * 128 + c], page, rows[c])]
    \o SubSeq(buf, 2 + page * 128 + Len(rows), 1 + (page + 1) * 128)

Redraw(buf, arr, plotLength, yMin, yMax, oob) ==
    With([c \in 1 .. Min(RedrawLast(plotLength), 127) + 1 |->
             ColumnRows(arr, c - 1, yMin, yMax, oob)], LAMBDA rows :
    <<buf[1]>> \o RedrawPage(buf, 0, rows) \o RedrawPage(buf, 1, rows)
    \o RedrawPage(buf, 2, rows) \o RedrawPage(buf, 3, rows) \o RedrawPage(buf, 4, rows)
    \o RedrawPage(buf, 5, rows) \o RedrawPage(buf, 6, rows) \o RedrawPage(buf, 7, rows))

\* A plot that flushes the framebuffer before it redraws the columns
plotFlushFirst(m, plotVariable, screen, oob) ==
    With(refresh(lazyInit(m, screen, 1), -1), LAMBDA m1 :
    With(Len(m1.plotArray), LAMBDA plotLength :
    With(MathRound(plotVariable), LAMBDA rounded :
    With(Append(PlotShift(m1.plotArray), rounded), LAMBDA arr :
    With(ScaleMax(rounded, m1.graphYMax), LAMBDA yMax :
    With(ScaleMin(rounded, m1.graphYMin), LAMBDA yMin :
    [m1 EXCEPT !.plotArray = arr, !.graphYMax = yMax, !.graphYMin = yMin,
               !.screenBuf = Redraw(@, arr, plotLength, yMin, yMax, oob),
               !.previousYPlot = YPlot(arr, RedrawLast(plotLength), yMin, yMax, oob)]))))))

plot(m, plotVariable, screen, oob) ==
    With(lazyInit(m, screen, 1), LAMBDA m1 :
    With(Len(m1.plotArray), LAMBDA plotLength :
    With(MathRound(plotVariable), LAMBDA rounded :
    With(Append(PlotShift(m1.plotArray), rounded), LAMBDA arr :
    With(ScaleMax(rounded, m1.graphYMax), LAMBDA yMax :
    With(ScaleMin(rounded, m1.graphYMin), LAMBDA yMin :
    With([m1 EXCEPT !.plotArray = arr, !.graphYMax = yMax, !.graphYMin = yMin,
                    !.screenBuf = Redraw(@, arr, plotLength, yMin, yMax, oob),
                    !.previousYPlot = YPlot(arr, RedrawLast(plotLength), yMin, yMax, oob)],
         LAMBDA m2 : refresh(m2, -1))))))))

----------------------------------------------------------------------------
(* Clock alarm *)

\* The alarm state as the functions of the alarm see and leave it
AlarmCur ==
    [alarmHour |-> alarmHour, alarmMin |-> alarmMin, alarmSetFlag |-> alarmSetFlag,
     alarmRepeat |-> alarmRepeat, alarmOff |-> alarmOff, alarmTriggered |-> alarmTriggered,
     simpleCheck |-> simpleCheck, pollers |-> pollers, paused |-> paused,
     waiters |-> waiters, offTimers |-> offTimers, halted |-> halted, polled |-> polled]

\* simpleAlarmSet: the settings, the flag, and a new background loop
simpleAlarmSet(a, alarmType, hour, min, alarmSilence) ==
    [a EXCEPT !.alarmRepeat = IF alarmType = 1 THEN 1 ELSE 0,
              !.alarmOff = IF alarmSilence = 1 THEN 1 ELSE IF alarmSilence = 2 THEN 2 ELSE @,
              !.alarmHour = hour,
              !.alarmMin = min,
              !.alarmSetFlag = 1,
              !.pollers = @ + 1]

\* backgroundAlarmCheck, first test: a triggered repeating alarm is set
\* again once the minute has changed
RearmAfterMinute(a, checkMin) ==
    IF a.alarmTriggered = 1 /\ a.alarmRepeat = 1 /\ checkMin # a.alarmMin
    THEN simpleAlarmSet([a EXCEPT !.alarmSetFlag = 0, !.alarmTriggered = 0],
                        1, a.alarmHour, a.alarmMin, a.alarmOff)
    ELSE a

\* The call of alarmHandler, made only while simpleCheck is not 1
CallHandler(a, registered) ==
    IF a.simpleCheck # 1
    THEN [a EXCEPT !.polled.invoked = registered, !.halted = ~registered]
    ELSE a

\* backgroundAlarmCheck, last test: a triggered user-silence alarm is
\* switched off once the minute has changed
UserSilenceOff(a, checkMin) ==
    IF a.alarmTriggered = 1 /\ a.alarmOff = 2 /\ checkMin # a.alarmMin
    THEN [a EXCEPT !.alarmSetFlag = 0, !.alarmTriggered = 0]
    ELSE a

\* backgroundAlarmCheck up to its basic.pause(2500), or to its end when it
\* does not pause; the loop that ran it leaves the loop test
backgroundAlarmCheck(a, checkHour, checkMin, registered) ==
    With(RearmAfterMinute([a EXCEPT !.pollers = @ - 1], checkMin), LAMBDA a1 :
    IF checkHour = a1.alarmHour /\ checkMin = a1.alarmMin
    THEN With([a1 EXCEPT !.alarmTriggered = 1,
                         !.polled = [matched |-> TRUE, registered |-> registered,
                                     invoked |-> FALSE]], LAMBDA a2 :
         IF a2.alarmOff = 1
         THEN With(CallHandler([a2 EXCEPT !.alarmSetFlag = 0], registered), LAMBDA a3 :
              IF a3.halted THEN a3 ELSE [a3 EXCEPT !.paused = Append(@, checkMin)])
         ELSE IF a2.alarmOff = 2
         THEN With(CallHandler(a2, registered), LAMBDA a3 :
              IF a3.halted THEN a3
              ELSE With(UserSilenceOff(a3, checkMin), LAMBDA a4 :
                   [a4 EXCEPT !.pollers = @ + 1]))
         ELSE With(UserSilenceOff(a2, checkMin), LAMBDA a4 : [a4 EXCEPT !.pollers = @ + 1]))
    ELSE With([a1 EXCEPT !.polled = [matched |-> FALSE, registered |-> registered,
                                     invoked |-> FALSE]], LAMBDA a2 :
         With(UserSilenceOff(a2, checkMin), LAMBDA a4 : [a4 EXCEPT !.pollers = @ + 1])))

\* backgroundAlarmCheck after the basic.pause(2500) of the auto-silence
\* branch; checkMin is the minute it read before the pause
afterPause(a, checkMin) ==
    With([a EXCEPT !.paused = Tail(@),
                   !.waiters = IF a.alarmRepeat = 1 THEN @ + 1 ELSE @], LAMBDA a1 :
    With(UserSilenceOff(a1, checkMin), LAMBDA a2 : [a2 EXCEPT !.pollers = @ + 1]))

\* The background task that waits while checkMin == alarmMin, then clears
\* alarmTriggered and sets the repeating alarm again
rearm(a) ==
    simpleAlarmSet([a EXCEPT !.waiters = @ - 1, !.alarmTriggered = 0],
                   1, a.alarmHour, a.alarmMin, a.alarmOff)

\* simpleAlarmCheck: simpleCheck = 1; a set alarm whose time has come starts,
\* for auto silence, the task that clears alarmSetFlag after 2500 ms
simpleAlarmCheck(a, checkHour, checkMin) ==
    With([a EXCEPT !.simpleCheck = 1], LAMBDA a1 :
    IF a1.alarmSetFlag = 1 /\ checkHour = a1.alarmHour /\ checkMin = a1.alarmMin
       /\ a1.alarmOff = 1
    THEN [a1 EXCEPT !.offTimers = @ + 1]
    ELSE a1)

simpleAlarmOff(a) ==
    With([a EXCEPT !.alarmSetFlag = 0], LAMBDA a1 :
    IF a1.alarmTriggered = 1 /\ a1.alarmRepeat = 1
    THEN [a1 EXCEPT !.waiters = @ + 1]
    ELSE a1)

----------------------------------------------------------------------------
(* Data logging *)

NONE == 0
USB == 1
firstDataBlock == 24

\* A string is the sequence of its pieces.  A piece is a literal text
\* (k = 0) or the reading of a quantity captured by the k-th logData call
Tok(text, k) == [f |-> text, k |-> k]
CRLF == Tok("\r\n", 0)

\* The columns, in the order storeTitles and logData go through them
Fields == <<"Date", "Time", "Temperature", "Pressure", "Humidity", "IAQ Score", "eCO2", "Light">>

\* The memory driver: a block holds the string last written to it, a block
\* never written holds its erased content
Erased == <<Tok("erased", 0)>>
EepromWriteBlock(l, data, block) ==
    IF block \in DOMAIN l.eepromBlocks THEN [l EXCEPT !.eepromBlocks[block] = data] ELSE l
EepromReadBlock(l, block) ==
    IF block \in DOMAIN l.eepromBlocks THEN l.eepromBlocks[block] ELSE Erased

\* str with, for every included column from the i-th on, piece(column)
\* and the delimiter appended
RECURSIVE AddColumns(_, _, _, _, _)
AddColumns(str, i, l, k, suffix) ==
    IF i > Len(Fields) THEN str \o suffix
    ELSE AddColumns(IF l.inc[Fields[i]]
                    THEN str \o <<Tok(Fields[i], k), Tok(l.delimiter, 0)>> ELSE str,
                    i + 1, l, k, suffix)

setDataForUSB(l) == [l EXCEPT !.comms = USB]

storeTitles(l) ==
    With(EepromWriteBlock(l, <<Tok("Kitronik Data Logger", 0), CRLF>>, 21), LAMBDA l1 :
    With(EepromWriteBlock(l1, AddColumns(<< >>, 1, l1, 0, <<CRLF>>), 23), LAMBDA l2 :
    [l2 EXCEPT !.writeTitles = TRUE]))

\* info: <<name, subject, year, group>>
addProjectInfo(l, info) ==
    With(IF l.comms = NONE THEN setDataForUSB(l) ELSE l, LAMBDA l1 :
    EepromWriteBlock(l1,
        <<Tok("Name: ", 0), Tok(info[1], 0), CRLF>>
        \o (IF info[2] # "" THEN <<Tok("Subject: ", 0), Tok(info[2], 0), CRLF>> ELSE << >>)
        \o (IF info[3] # "" THEN <<Tok("Year: ", 0), Tok(info[3], 0), CRLF>> ELSE << >>)
        \o (IF info[4] # "" THEN <<Tok("Class: ", 0), Tok(info[4], 0), CRLF>> ELSE << >>),
        22))

\* logData; k numbers the call, whose readings are the pieces Tok(column, k)
logData(l, k) ==
    With(IF l.writeTitles = FALSE THEN storeTitles(l) ELSE l, LAMBDA l1 :
    With([l1 EXCEPT !.dataEntry = AddColumns(@, 1, l1, k, << >>)], LAMBDA l2 :
    With(EepromWriteBlock(l2, l2.dataEntry \o <<CRLF>>, firstDataBlock + l2.entryNum),
         LAMBDA l3 :
    With([l3 EXCEPT !.eepromBytes = <<l3.entryNum \div 256, l3.entryNum % 256>>], LAMBDA l4 :
    IF l4.entryNum = 999
    THEN [l4 EXCEPT !.dataFull = TRUE, !.entryNum = 0]
    ELSE [l4 EXCEPT !.entryNum = @ + 1]))))

\* The blocks from .. to - 1, read in order
ReadBlocks(l, from, to) == [i \in 1 .. (to - from) |-> EepromReadBlock(l, from + i - 1)]

sendAllData(l) ==
    With(IF l.comms = NONE THEN setDataForUSB(l) ELSE l, LAMBDA l1 :
    With(<<EepromReadBlock(l1, 21), EepromReadBlock(l1, 22), EepromReadBlock(l1, 23)>>,
         LAMBDA head :
    IF l1.dataFull
    THEN [l1 EXCEPT !.serialWrites = head \o ReadBlocks(l1, firstDataBlock, 1024)]
    ELSE With(l1.eepromBytes[1] * 256 + l1.eepromBytes[2], LAMBDA lastEntry :
         [l1 EXCEPT !.serialWrites =
                        head \o ReadBlocks(l1, firstDataBlock, firstDataBlock + lastEntry)])))

----------------------------------------------------------------------------
(* The state machine *)

\* Bounds of the model: the number of public calls of a run under Spec,
\* SpecPixel and SpecShow, and the number of plot calls under SpecPlot
MaxCalls == 2
MaxPixelCalls == 3
MaxShowCalls == 2
MaxShapeCalls == 2
MaxAlignCalls == 2
MaxLineCalls == 3
MaxModeCalls == 3
MaxTasks == 2
MaxLogs == 3
MaxSelectCalls == 2
MaxLastCalls == 2
MaxPlots == 130

\* The module-level state as the record the operators work on; the
\* observations of a call start empty
Cur ==
    [displayAddress |-> displayAddress, initialised |-> initialised, screenBuf |-> screenBuf,
     plotArray |-> plotArray, graphYMin |-> graphYMin, graphYMax |-> graphYMax,
     previousYPlot |-> previousYPlot,
     bus |-> << >>, initEnd |-> 0, errorShown |-> FALSE, lines |-> << >>]

Call(name, args, screen) == [op |-> name, args |-> args, screen |-> screen]

\* A public call op that leaves the state r
Commit(op, r) ==
    /\ displayAddress' = r.displayAddress
    /\ initialised' = r.initialised
    /\ screenBuf' = r.screenBuf
    /\ plotArray' = r.plotArray
    /\ graphYMin' = r.graphYMin
    /\ graphYMax' = r.graphYMax
    /\ previousYPlot' = r.previousYPlot
    /\ bus' = r.bus
    /\ initEnd' = r.initEnd
    /\ errorShown' = r.errorShown
    /\ lines' = r.lines
    /\ wasInit' = initialised
    /\ prevBuf' = screenBuf
    /\ prevMin' = graphYMin
    /\ prevMax' = graphYMax
    /\ recent' = (IF Len(recent) < 3 THEN recent ELSE Tail(recent)) \o <<op>>
    /\ calls' = calls + 1
    /\ nPlots' = IF op.op = "plot" THEN nPlots + 1 ELSE nPlots
    /\ UNCHANGED <<present, signal>>
    /\ UNCHANGED alarmVars
    /\ UNCHANGED logVars

\* The plotted quantity: sample n (n = 1, 2, ...) of waveform sig, in quarters
Sample(sig, n) ==
    CASE sig = 1 -> 4 * n
      [] sig = 2 -> 0 - 3 * n
      [] sig = 3 -> 4 * ((n * 37) % 101) + 1
      [] sig = 4 -> 202
      [] sig = 5 -> IF n % 2 = 1 THEN 600 ELSE 0 - 200
      [] OTHER   -> 2 * ((n * n) % 211)

\* The alarm state at program start
AlarmInit ==
    /\ alarmHour = 0
    /\ alarmMin = 0
    /\ alarmSetFlag = 0
    /\ alarmRepeat = 0
    /\ alarmOff = 0
    /\ alarmTriggered = 0
    /\ alarmHandler = FALSE
    /\ simpleCheck = 0
    /\ rtc = <<7, 29>>
    /\ pollers = 0
    /\ paused = << >>
    /\ waiters = 0
    /\ offTimers = 0
    /\ halted = FALSE
    /\ polled = [matched |-> FALSE, registered |-> FALSE, invoked |-> FALSE]

\* The blocks of the memory the model keeps: the titles and MaxLogs entries
LogBlocks == 21 .. (firstDataBlock + MaxLogs)

\* The data logging state at program start, on a memory holding no entries
LogInit ==
    /\ delimiter = " "
    /\ inc = [c \in {Fields[i] : i \in 1 .. Len(Fields)} |-> FALSE]
    /\ dataEntry = << >>
    /\ entryNum = 0
    /\ writeTitles = FALSE
    /\ dataFull = FALSE
    /\ comms = NONE
    /\ eepromBlocks = [b \in LogBlocks |-> Erased]
    /\ eepromBytes = <<0, 0>>
    /\ serialWrites = << >>
    /\ nLogs = 0
    /\ logOp = "none"

InitWith(P, S) ==
    /\ displayAddress = DISPLAY_ADDR_1
    /\ initialised = 0
    /\ screenBuf = ZeroBuf
    /\ plotArray = << >>
    /\ graphYMin = 0
    /\ graphYMax = 100
    /\ previousYPlot = <<0, 1>>
    /\ present \in P
    /\ bus = << >>
    /\ initEnd = 0
    /\ errorShown = FALSE
    /\ lines = << >>
    /\ wasInit = 0
    /\ prevBuf = ZeroBuf
    /\ prevMin = 0
    /\ prevMax = 100
    /\ recent = << >>
    /\ calls = 0
    /\ signal \in S
    /\ nPlots = 0
    /\ AlarmInit
    /\ LogInit

DoInitDisplay(limit, S) ==
    /\ calls < limit
    /\ \E s \in S : \E r \in {initDisplay(Cur, s)} : Commit(Call("initDisplay", << >>, s), r)

DoSetPixel(limit, P, S) ==
    /\ calls < limit
    /\ \E p \in P, s \in S : \E r \in {setPixel(Cur, p[1], p[2], s)} :
          Commit(Call("setPixel", p, s), r)

DoClearPixel(limit, P, S) ==
    /\ calls < limit
    /\ \E p \in P, s \in S : \E r \in {clearPixel(Cur, p[1], p[2], s)} :
          Commit(Call("clearPixel", p, s), r)

\* C is a set of <<text, line, alignment>>
DoShow(limit, C, S) ==
    /\ calls < limit
    /\ \E c \in C, s \in S : \E r \in {show(Cur, c[1], c[2], c[3], s)} :
          Commit(Call("show", c, s), r)

DoClearLine(limit, L, S) ==
    /\ calls < limit
    /\ \E l \in L, s \in S : \E r \in {clearLine(Cur, l, s)} :
          Commit(Call("clearLine", <<l>>, s), r)

DoDrawLine(limit, D, S) ==
    /\ calls < limit
    /\ \E d \in D, s \in S : \E r \in {drawLine(Cur, d[1], d[2], d[3], d[4], s)} :
          Commit(Call("drawLine", d, s), r)

DoDrawRect(limit, R, S) ==
    /\ calls < limit
    /\ \E q \in R, s \in S : \E r \in {drawRect(Cur, q[1], q[2], q[3], q[4], s)} :
          Commit(Call("drawRect", q, s), r)

DoClear(limit, S) ==
    /\ calls < limit
    /\ \E s \in S : \E r \in {clear(Cur, s)} : Commit(Call("clear", << >>, s), r)

DoRefresh(limit, S) ==
    /\ calls < limit
    /\ \E s \in S : \E r \in {refresh(Cur, s)} : Commit(Call("refresh", << >>, s), r)

DoInvert(limit, S) ==
    /\ calls < limit
    /\ \E b \in BOOLEAN, s \in S : \E r \in {invert(Cur, b, s)} :
          Commit(Call("invert", <<b>>, s), r)

DoControlDisplayOnOff(limit, S) ==
    /\ calls < limit
    /\ \E b \in BOOLEAN, s \in S : \E r \in {controlDisplayOnOff(Cur, b, s)} :
          Commit(Call("controlDisplayOnOff", <<b>>, s), r)

DoPlot(limit, plotLimit, S) ==
    /\ calls < limit
    /\ nPlots < plotLimit
    /\ \E s \in S, oob \in {"NaN", "zero"} :
          \E r \in {plot(Cur, Sample(signal, nPlots + 1), s, oob)} :
             Commit(Call("plot", <<Sample(signal, nPlots + 1)>>, s), r)

----------------------------------------------------------------------------
(* Spec: every public display function, on every screen selector, with and *)
(* without a controller on the bus                                         *)

Screens == {-1, 1, 2}
Rep(c, n) == [i \in 1 .. n |-> c]
Hello == <<72, 69, 76, 76, 79>>

Init == InitWith({{DISPLAY_ADDR_1, DISPLAY_ADDR_2}, {}}, {1})

Next ==
    \/ DoInitDisplay(MaxCalls, Screens)
    \/ DoSetPixel(MaxCalls, {<<3, 10>>}, Screens)
    \/ DoClearPixel(MaxCalls, {<<3, 10>>}, Screens)
    \/ DoShow(MaxCalls, {<<Hello, 2, -1>>}, Screens)
    \/ DoClearLine(MaxCalls, {2}, Screens)
    \/ DoDrawLine(MaxCalls, {<<0, 2, 5, 5>>, <<1, 2, 5, 5>>}, Screens)
    \/ DoDrawRect(MaxCalls, {<<3, 3, 1, 1>>}, Screens)
    \/ DoClear(MaxCalls, Screens)
    \/ DoRefresh(MaxCalls, Screens)
    \/ DoInvert(MaxCalls, Screens)
    \/ DoControlDisplayOnOff(MaxCalls, Screens)
    \/ DoPlot(MaxCalls, MaxCalls, Screens)

Spec == Init /\ [][Next]_vars

----------------------------------------------------------------------------
(* SpecPixel: pixels set and cleared, the display cleared and refreshed    *)

\* Two pixels of one framebuffer byte, and pixels of the last column, of
\* the last row and of other pages
PixelPoints == {<<0, 0>>, <<0, 1>>, <<127, 63>>, <<64, 20>>}

InitPixel == InitWith({{DISPLAY_ADDR_1, DISPLAY_ADDR_2}, {}}, {1})

NextPixel ==
    \/ DoSetPixel(MaxPixelCalls, PixelPoints, {-1})
    \/ DoClearPixel(MaxPixelCalls, PixelPoints, {-1})
    \/ DoClear(MaxPixelCalls, {-1})
    \/ DoRefresh(MaxPixelCalls, {-1})

SpecPixel == InitPixel /\ [][NextPixel]_vars

----------------------------------------------------------------------------
(* SpecShow: texts shown on a line with an alignment                       *)

\* Words(<<n1, n2, ...>>): n1 letters A, a space, n2 letters B, ...
RECURSIVE WordsFrom(_, _)
WordsFrom(ws, k) ==
    IF k > Len(ws) THEN << >>
    ELSE (IF k = 1 THEN << >> ELSE <<SpaceChar>>) \o Rep(64 + k, ws[k]) \o WordsFrom(ws, k + 1)
Words(ws) == WordsFrom(ws, 1)

\* Texts that fit one line with the appended space (at most 25 characters)
ShortTexts == {<< >>, <<65>>, Hello, Words(<<5, 5>>), Rep(65, 24), Words(<<12, 12>>)}

\* Longer texts whose words have at most 26 characters
WrapTexts ==
    {Words(<<15, 15>>), Words(<<10, 10, 10>>), Words(<<26, 26>>), Words(<<12, 13, 5>>),
     Words(<<5, 20, 5, 20>>), Words(<<20, 5, 20>>), Words(<<25, 3>>), Words(<<3, 26>>)}

ShowCases ==
    (ShortTexts \X {-1} \X {-1}) \cup (ShortTexts \X {1} \X {0})
    \cup (WrapTexts \X {-1, 3} \X {-1}) \cup ({Words(<<15, 15>>)} \X {8} \X {-1})

InitShow == InitWith({{DISPLAY_ADDR_1, DISPLAY_ADDR_2}}, {1})

NextShow == DoShow(MaxShowCalls, ShowCases, {-1})

SpecShow == InitShow /\ [][NextShow]_vars

----------------------------------------------------------------------------
(* SpecPlot: a waveform plotted sample by sample                           *)

Signals == 1 .. 5

InitPlot == InitWith({{DISPLAY_ADDR_1, DISPLAY_ADDR_2}}, Signals)

NextPlot == DoPlot(MaxPlots, MaxPlots, {-1})

SpecPlot == InitPlot /\ [][NextPlot]_vars

----------------------------------------------------------------------------
(* SpecShape: rectangles and lines that stay on the panel, on cleared and  *)
(* on drawn-on framebuffers                                                *)

\* <<width, height, x, y>>
Rects ==
    {<<1, 1, 0, 0>>, <<10, 5, 0, 0>>, <<128, 64, 0, 0>>, <<2, 2, 126, 62>>, <<1, 64, 5, 0>>,
     <<128, 1, 0, 63>>, <<3, 9, 7, 6>>, <<5, 3, 60, 30>>}

\* <<lineDirection, len, x, y>>
LineCases ==
    {<<0, 1, 0, 0>>, <<0, 128, 0, 63>>, <<0, 5, 123, 8>>, <<0, 0, 4, 4>>, <<0, 20, 10, 17>>,
     <<1, 64, 0, 0>>, <<1, 100, 127, 1>>, <<1, 63, 3, 1>>, <<1, 10, 64, 54>>, <<1, 1, 0, 63>>}

InitShape == InitWith({{DISPLAY_ADDR_1, DISPLAY_ADDR_2}}, {1})

NextShape ==
    \/ DoDrawRect(MaxShapeCalls, Rects, {-1})
    \/ DoDrawLine(MaxShapeCalls, LineCases, {-1})
    \/ DoClear(MaxShapeCalls, {-1})

SpecShape == InitShape /\ [][NextShape]_vars

----------------------------------------------------------------------------
(* SpecAlign: show on line 2 with each alignment, of texts below, at and  *)
(* above the length at which show stops aligning, and of wrapped texts    *)

AlignTexts ==
    {<< >>, Hello, Rep(65, 23), Rep(65, 24), Words(<<12, 13, 5>>), Words(<<26, 26>>)}

AlignCases == AlignTexts \X {2} \X {0, 1, 2}

InitAlign == InitWith({{DISPLAY_ADDR_1, DISPLAY_ADDR_2}}, {1})

NextAlign == DoShow(MaxAlignCalls, AlignCases, {-1})

SpecAlign == InitAlign /\ [][NextAlign]_vars

----------------------------------------------------------------------------
(* SpecLine: clearLine of every line, on framebuffers with pixels set at   *)
(* both ends of a row's page                                               *)

LinePoints == {<<0, 0>>, <<127, 7>>, <<1, 8>>, <<126, 60>>, <<127, 63>>}

InitLine == InitWith({{DISPLAY_ADDR_1, DISPLAY_ADDR_2}}, {1})

NextLine ==
    \/ DoSetPixel(MaxLineCalls, LinePoints, {-1})
    \/ DoClearLine(MaxLineCalls, 1 .. 8, {-1})

SpecLine == InitLine /\ [][NextLine]_vars

----------------------------------------------------------------------------
(* SpecMode: the display-mode commands between drawing and plotting calls *)

InitMode == InitWith({{DISPLAY_ADDR_1, DISPLAY_ADDR_2}}, {5})

NextMode ==
    \/ DoSetPixel(MaxModeCalls, {<<3, 10>>}, {-1})
    \/ DoPlot(MaxModeCalls, MaxModeCalls, {-1})
    \/ DoInvert(MaxModeCalls, {-1, 2})
    \/ DoControlDisplayOnOff(MaxModeCalls, {-1, 2})

SpecMode == InitMode /\ [][NextMode]_vars

----------------------------------------------------------------------------
(* SpecAlarm: the alarm functions, their background tasks and the clock *)

\* An alarm step that leaves the alarm state a, with at most tasks
\* background tasks alive
AlarmCommit(a, tasks) ==
    /\ a.pollers + Len(a.paused) + a.waiters + a.offTimers <= tasks
    /\ alarmHour' = a.alarmHour
    /\ alarmMin' = a.alarmMin
    /\ alarmSetFlag' = a.alarmSetFlag
    /\ alarmRepeat' = a.alarmRepeat
    /\ alarmOff' = a.alarmOff
    /\ alarmTriggered' = a.alarmTriggered
    /\ simpleCheck' = a.simpleCheck
    /\ pollers' = a.pollers
    /\ paused' = a.paused
    /\ waiters' = a.waiters
    /\ offTimers' = a.offTimers
    /\ halted' = a.halted
    /\ polled' = a.polled
    /\ UNCHANGED <<alarmHandler, rtc>>
    /\ UNCHANGED displayVars
    /\ UNCHANGED logVars

\* The times the clock chip reports, in order, round and round
ClockTimes == <<<<7, 29>>, <<7, 30>>, <<7, 31>>, <<8, 30>>>>

NextTime(t) ==
    CHOOSE u \in {ClockTimes[k] : k \in 1 .. Len(ClockTimes)} :
        \E k \in 1 .. Len(ClockTimes) :
            ClockTimes[k] = t /\ u = ClockTimes[(k % Len(ClockTimes)) + 1]

DoOnAlarmTrigger ==
    /\ ~halted
    /\ alarmHandler' = TRUE
    /\ UNCHANGED <<alarmHour, alarmMin, alarmSetFlag, alarmRepeat, alarmOff, alarmTriggered,
                   simpleCheck, rtc, pollers, paused, waiters, offTimers, halted, polled>>
    /\ UNCHANGED displayVars
    /\ UNCHANGED logVars

\* A: the <<alarmType, hour, min, alarmSilence>> the program sets
DoSimpleAlarmSet(A, tasks) ==
    /\ ~halted
    /\ \E c \in A : \E a \in {simpleAlarmSet(AlarmCur, c[1], c[2], c[3], c[4])} :
          AlarmCommit(a, tasks)

DoSimpleAlarmCheck(tasks) ==
    /\ ~halted
    /\ \E a \in {simpleAlarmCheck(AlarmCur, rtc[1], rtc[2])} : AlarmCommit(a, tasks)

DoSimpleAlarmOff(tasks) ==
    /\ ~halted
    /\ \E a \in {simpleAlarmOff(AlarmCur)} : AlarmCommit(a, tasks)

\* while (alarmSetFlag == 1) { backgroundAlarmCheck(); basic.pause(1000) }
DoBackgroundLoop(tasks) ==
    /\ ~halted
    /\ pollers > 0
    /\ \E a \in {IF alarmSetFlag = 1
                 THEN backgroundAlarmCheck(AlarmCur, rtc[1], rtc[2], alarmHandler)
                 ELSE [AlarmCur EXCEPT !.pollers = @ - 1]} : AlarmCommit(a, tasks)

DoAfterPause(tasks) ==
    /\ ~halted
    /\ Len(paused) > 0
    /\ \E a \in {afterPause(AlarmCur, Head(paused))} : AlarmCommit(a, tasks)

DoRearm(tasks) ==
    /\ ~halted
    /\ waiters > 0
    /\ rtc[2] # alarmMin
    /\ \E a \in {rearm(AlarmCur)} : AlarmCommit(a, tasks)

\* basic.pause(2500); alarmSetFlag = 0
DoAutoOff(tasks) ==
    /\ ~halted
    /\ offTimers > 0
    /\ \E a \in {[AlarmCur EXCEPT !.alarmSetFlag = 0, !.offTimers = @ - 1]} :
          AlarmCommit(a, tasks)

DoClockTick ==
    /\ ~halted
    /\ rtc' = NextTime(rtc)
    /\ UNCHANGED <<alarmHour, alarmMin, alarmSetFlag, alarmRepeat, alarmOff, alarmTriggered,
                   alarmHandler, simpleCheck, pollers, paused, waiters, offTimers, halted, polled>>
    /\ UNCHANGED displayVars
    /\ UNCHANGED logVars

AlarmSettings == {0, 1} \X {7} \X {30} \X {1, 2}

InitAlarm == InitWith({{DISPLAY_ADDR_1, DISPLAY_ADDR_2}}, {1})

NextAlarm ==
    \/ DoOnAlarmTrigger
    \/ DoSimpleAlarmSet(AlarmSettings, MaxTasks)
    \/ DoSimpleAlarmCheck(MaxTasks)
    \/ DoSimpleAlarmOff(MaxTasks)
    \/ DoBackgroundLoop(MaxTasks)
    \/ DoAfterPause(MaxTasks)
    \/ DoRearm(MaxTasks)
    \/ DoAutoOff(MaxTasks)
    \/ DoClockTick

SpecAlarm == InitAlarm /\ [][NextAlarm]_vars

----------------------------------------------------------------------------
(* SpecLog: the data logging set-up calls, logData and sendAllData *)

LogCur ==
    [delimiter |-> delimiter, inc |-> inc, dataEntry |-> dataEntry, entryNum |-> entryNum,
     writeTitles |-> writeTitles, dataFull |-> dataFull, comms |-> comms,
     eepromBlocks |-> eepromBlocks, eepromBytes |-> eepromBytes, serialWrites |-> serialWrites]

\* A data logging call op that leaves the state l
LogCommit(op, l) ==
    /\ delimiter' = l.delimiter
    /\ inc' = l.inc
    /\ dataEntry' = l.dataEntry
    /\ entryNum' = l.entryNum
    /\ writeTitles' = l.writeTitles
    /\ dataFull' = l.dataFull
    /\ comms' = l.comms
    /\ eepromBlocks' = l.eepromBlocks
    /\ eepromBytes' = l.eepromBytes
    /\ serialWrites' = l.serialWrites
    /\ nLogs' = IF op = "logData" THEN nLogs + 1 ELSE nLogs
    /\ logOp' = op
    /\ UNCHANGED displayVars
    /\ UNCHANGED alarmVars

\* includeDate(), includeTime(), ..., includeLight()
DoInclude(F) ==
    \E c \in F : \E l \in {[LogCur EXCEPT !.inc[c] = TRUE]} : LogCommit("include", l)

\* selectSeparator(charSelect)
DoSelectSeparator(D) ==
    \E d \in D : \E l \in {[LogCur EXCEPT !.delimiter = d]} : LogCommit("selectSeparator", l)

DoAddProjectInfo(I) ==
    \E info \in I : \E l \in {addProjectInfo(LogCur, info)} : LogCommit("addProjectInfo", l)

DoLogData(limit) ==
    /\ nLogs < limit
    /\ \E l \in {logData(LogCur, nLogs + 1)} : LogCommit("logData", l)

DoSendAllData ==
    \E l \in {sendAllData(LogCur)} : LogCommit("sendAllData", l)

InitLog == InitWith({{DISPLAY_ADDR_1, DISPLAY_ADDR_2}}, {1})

NextLog ==
    \/ DoInclude({"Date", "Temperature", "Light"})
    \/ DoSelectSeparator({","})
    \/ DoAddProjectInfo({<<"Ada", "", "", "">>})
    \/ DoLogData(MaxLogs)
    \/ DoSendAllData

SpecLog == InitLog /\ [][NextLog]_vars

----------------------------------------------------------------------------
(* SpecSelect: every public display function with the primary and the     *)
(* secondary screen selector, controllers present at both addresses       *)

SelectScreens == {-1, 2}

InitSelect == InitWith({{DISPLAY_ADDR_1, DISPLAY_ADDR_2}}, {1})

NextSelect ==
    \/ DoInitDisplay(MaxSelectCalls, {1})
    \/ DoSetPixel(MaxSelectCalls, {<<3, 10>>}, SelectScreens)
    \/ DoClearPixel(MaxSelectCalls, {<<3, 10>>}, SelectScreens)
    \/ DoShow(MaxSelectCalls, {<<Hello, 2, -1>>}, SelectScreens)
    \/ DoClearLine(MaxSelectCalls, {2}, SelectScreens)
    \/ DoDrawLine(MaxSelectCalls, {<<0, 2, 5, 5>>}, SelectScreens)
    \/ DoDrawRect(MaxSelectCalls, {<<3, 3, 1, 1>>}, SelectScreens)
    \/ DoClear(MaxSelectCalls, SelectScreens)
    \/ DoRefresh(MaxSelectCalls, SelectScreens)
    \/ DoInvert(MaxSelectCalls, SelectScreens)
    \/ DoControlDisplayOnOff(MaxSelectCalls, SelectScreens)
    \/ DoPlot(MaxSelectCalls, MaxSelectCalls, SelectScreens)

SpecSelect == InitSelect /\ [][NextSelect]_vars

----------------------------------------------------------------------------
(* SpecLast: texts shown on line 8, the last of the panel                  *)

LastTexts ==
    {Hello, Rep(65, 25), Rep(65, 26), Rep(66, 30), Words(<<15, 15>>), Words(<<10, 10, 10>>),
     Words(<<26, 26>>)}

LastCases == LastTexts \X {8} \X {-1, 1, 2}

InitLast == InitWith({{DISPLAY_ADDR_1, DISPLAY_ADDR_2}}, {1})

NextLast == DoShow(MaxLastCalls, LastCases, {-1})

SpecLast == InitLast /\ [][NextLast]_vars

----------------------------------------------------------------------------
(* Vocabulary of the properties *)

\* The most recent public call
LastOp == recent[Len(recent)]

\* The bus writes the call made after its lazy initialisation
OwnWrites == SubSeq(bus, initEnd + 1, Len(bus))

IsDataWrite(w) == Len(w.data) > 0 /\ w.data[1] = 64
DataWrites(ws) == SelectSeq(ws, IsDataWrite)

\* The three command writes that position to column col of page page
IsPosition(ws, col, page) ==
    /\ Len(ws) >= 3
    /\ ws[1].data = <<0, 176 + page>>
    /\ ws[2].data = <<0, col % 16>>
    /\ ws[3].data = <<0, 16 + (col \div 16)>>

ProbeBytes == <<0, 175>>

LazyEntryPoints ==
    {"setPixel", "clearPixel", "show", "clearLine", "drawLine", "drawRect", "clear", "plot",
     "refresh", "invert", "controlDisplayOnOff"}

----------------------------------------------------------------------------
(* Properties under Spec *)

\* C1: a public display entry point called while the initialised flag is
\* false first runs the controller initialisation on the bus address its
\* screen selector selects: the first bus write of the call is the presence
\* probe at that address and, when a controller answers there, the
\* configuration sequence follows at that address before any other write.
C1_LazyInitOnSelectedAddress ==
    (calls > 0 /\ wasInit = 0 /\ LastOp.op \in LazyEntryPoints /\ Len(bus) > 0) =>
        /\ bus[1] = [addr |-> setScreenAddr(LastOp.screen), data |-> ProbeBytes]
        /\ setScreenAddr(LastOp.screen) \in present =>
              /\ Len(bus) >= 1 + Len(ConfigSequence)
              /\ \A k \in 1 .. Len(ConfigSequence) :
                    bus[1 + k] = [addr |-> setScreenAddr(LastOp.screen),
                                  data |-> <<0>> \o ConfigSequence[k]]

\* C2: when the presence probe is not acknowledged the error message is
\* shown, the initialised flag stays false and the probe is the only bus
\* write of the public call.
C2_NoWriteAfterFailedProbe ==
    (calls > 0 /\ errorShown) =>
        /\ initialised = 0
        /\ Len(bus) = 1
        /\ bus[1].data = ProbeBytes

\* C3: on an already initialised display every bus write of a public call
\* goes to the secondary address when the screen selector is 2 and to the
\* primary address when it is 1 or omitted.
C3_WritesGoToSelectedAddress ==
    (calls > 0 /\ wasInit = 1) =>
        \A k \in 1 .. Len(bus) :
            bus[k].addr = (IF LastOp.screen = 2 THEN DISPLAY_ADDR_2 ELSE DISPLAY_ADDR_1)

----------------------------------------------------------------------------
(* Properties under SpecShow *)

\* The length of the longest word of a text (words are separated by spaces)
WordLengths(t) ==
    With(SpacePositions(t \o <<SpaceChar>>), LAMBDA sp :
    {sp[k] - (IF k = 1 THEN 0 ELSE sp[k - 1] + 1) : k \in 1 .. Len(sp)})

\* A line without the spaces at its end
RECURSIVE TrimRight(_)
TrimRight(t) ==
    IF Len(t) > 0 /\ t[Len(t)] = SpaceChar THEN TrimRight(SubSeq(t, 1, Len(t) - 1)) ELSE t

\* The output lines from the k-th on, joined with single spaces
RECURSIVE JoinLines(_, _)
JoinLines(ls, k) ==
    IF k > Len(ls) THEN << >>
    ELSE IF k = Len(ls) THEN TrimRight(ls[k].text)
    ELSE TrimRight(ls[k].text) \o <<SpaceChar>> \o JoinLines(ls, k + 1)

IsWrapCase(op) ==
    /\ op.op = "show"
    /\ Len(op.args[1]) + 1 > NUMBER_OF_CHAR_PER_LINE
    /\ \A n \in WordLengths(op.args[1]) : n <= NUMBER_OF_CHAR_PER_LINE
    /\ op.args[2] # 8

\* C4: show of a text of words of at most 26 characters that is longer than
\* 26 with its appended space, started on a line other than 8, produces at
\* least two output lines of at most 26 characters each which, joined with
\* single spaces, give back the text.
C4_WrapKeepsText ==
    (calls > 0 /\ IsWrapCase(LastOp)) =>
        /\ Len(lines) >= 2
        /\ \A k \in 1 .. Len(lines) : Len(TrimRight(lines[k].text)) <= NUMBER_OF_CHAR_PER_LINE
        /\ JoinLines(lines, 1) = LastOp.args[1]

IsDefaultShortShow(op) ==
    op.op = "show" /\ Len(op.args[1]) <= 25 /\ op.args[2] = -1 /\ op.args[3] = -1

\* C8: show(text) of a text of at most 25 characters with default line and
\* alignment renders exactly one output line, on row 0 from column 0, with
\* one bulk data write positioned at column 0 of page 0.
C8_ShortTextOneLine ==
    (calls > 0 /\ IsDefaultShortShow(LastOp)) =>
        /\ Len(lines) = 1
        /\ lines[1].row = 0
        /\ lines[1].x = 0
        /\ Len(DataWrites(OwnWrites)) = 1
        /\ Len(OwnWrites) = 4
        /\ IsPosition(OwnWrites, 0, 0)
        /\ IsDataWrite(OwnWrites[4])

C8_Witness ==
    /\ calls > 0
    /\ IsDefaultShortShow(LastOp)
    /\ Len(LastOp.args[1]) = 25
    /\ Len(lines) = 1
    /\ wasInit = 1

IsOneLineLeftShow(op) ==
    /\ op.op = "show"
    /\ Len(op.args[1]) + 1 <= NUMBER_OF_CHAR_PER_LINE
    /\ op.args[2] = 1
    /\ op.args[3] = 0

\* C9 as stated: on an initialised display show(text, 1, Left) of a
\* one-line text of n characters issues one bulk data write whose payload
\* covers exactly the columns 0 .. 5n-1 of page 0 (5n bytes after the 0x40
\* marker).
C9_PayloadEndsAtText ==
    (calls > 0 /\ wasInit = 1 /\ IsOneLineLeftShow(LastOp)) =>
        /\ Len(bus) = 4
        /\ IsPosition(bus, 0, 0)
        /\ IsDataWrite(bus[4])
        /\ Len(bus[4].data) = 1 + 5 * Len(LastOp.args[1])

\* C9 amended: the one bulk data write carries, after the 0x40 marker, the
\* 5(n+1) framebuffer bytes from column 0 of page 0 on: the glyph columns of
\* the text and those of the appended space.
C9_PayloadIncludesSpace ==
    (calls > 0 /\ wasInit = 1 /\ IsOneLineLeftShow(LastOp)) =>
        /\ Len(bus) = 4
        /\ IsPosition(bus, 0, 0)
        /\ bus[4].data = <<64>> \o GlyphBytes(LastOp.args[1] \o <<SpaceChar>>)
        /\ Len(bus[4].data) = 1 + 5 * (Len(LastOp.args[1]) + 1)
        /\ SubSeq(bus[4].data, 2, Len(bus[4].data)) = SubSeq(screenBuf, 2, Len(bus[4].data))

C9_Witness ==
    /\ calls > 0
    /\ wasInit = 1
    /\ LastOp = Call("show", <<Hello, 1, 0>>, -1)
    /\ Len(bus) = 4
    /\ Len(bus[4].data) = 31

----------------------------------------------------------------------------
(* Properties under SpecPixel *)

IsPixelOp(op, name, p) == op.op = name /\ op.args = p

\* C5 as stated: setPixel(x, y) followed by clearPixel(x, y) leaves
\* framebuffer byte x + (y >> 3) * 128 + 1 at the value it had before the
\* setPixel call, whatever the framebuffer held.
C5_RoundTripAnyContent ==
    [][\A p \in PixelPoints :
          (calls > 0 /\ IsPixelOp(LastOp, "setPixel", p) /\ IsPixelOp(LastOp', "clearPixel", p)) =>
              BufGet(screenBuf', p[1] + (p[2] \div 8) * 128 + 1)
                  = BufGet(prevBuf, p[1] + (p[2] \div 8) * 128 + 1)]_vars

\* C5 amended: the same, for a framebuffer in which pixel (x, y) was clear
\* before the setPixel call.
C5_RoundTripFromClearPixel ==
    [][\A p \in PixelPoints :
          (/\ calls > 0
           /\ IsPixelOp(LastOp, "setPixel", p)
           /\ IsPixelOp(LastOp', "clearPixel", p)
           /\ ~TestBit(BufGet(prevBuf, p[1] + (p[2] \div 8) * 128 + 1), p[2] % 8)) =>
              BufGet(screenBuf', p[1] + (p[2] \div 8) * 128 + 1)
                  = BufGet(prevBuf, p[1] + (p[2] \div 8) * 128 + 1)]_vars

\* setPixel(0, 0) then clearPixel(0, 0) on a byte that held pixel (0, 1)
C5_Witness ==
    /\ Len(recent) = 3
    /\ IsPixelOp(recent[1], "setPixel", <<0, 1>>)
    /\ IsPixelOp(recent[2], "setPixel", <<0, 0>>)
    /\ IsPixelOp(recent[3], "clearPixel", <<0, 0>>)
    /\ BufGet(screenBuf, 1) = 2

\* The 1025 bytes of scenario A: the marker, one bit, zeros
OnePixelBuffer(x, y) ==
    [j \in 1 .. SCREEN_BUF_LEN |->
        IF j = 1 THEN 64 ELSE IF j - 1 = x + (y \div 8) * 128 + 1 THEN Shl(y % 8) ELSE 0]

IsScenarioA ==
    /\ Len(recent) = 3
    /\ recent[1].op = "clear"
    /\ recent[2].op = "setPixel"
    /\ recent[3].op = "refresh"

\* C10: after clear(), setPixel(x, y), refresh() the last bus write is the
\* whole 1025-byte buffer: byte 0 is 0x40, byte x + (y >> 3) * 128 + 1 is
\* 1 << (y mod 8), every other byte is 0.
C10_ScenarioA ==
    IsScenarioA =>
        /\ Len(bus) > 0
        /\ bus[Len(bus)].data = OnePixelBuffer(recent[2].args[1], recent[2].args[2])

C10_Witness ==
    /\ IsScenarioA
    /\ recent[2].args = <<127, 63>>
    /\ wasInit = 1
    /\ bus[Len(bus)].data[SCREEN_BUF_LEN] = 128

----------------------------------------------------------------------------
(* Properties under SpecPlot *)

\* C6: after n plot calls the sample sequence has length min(n, 127) and
\* holds the rounded values of the last min(n, 127) calls in call order.
C6_SlidingWindow ==
    /\ Len(plotArray) = Min(nPlots, 127)
    /\ \A i \in 1 .. Len(plotArray) :
          plotArray[i] = MathRound(Sample(signal, nPlots - Len(plotArray) + i))

\* 130 calls: the sequence holds calls #4 .. #130
C6_Witness ==
    /\ nPlots = 130
    /\ Len(plotArray) = 127
    /\ plotArray[1] = MathRound(Sample(signal, 4))
    /\ signal = 3

\* C7: graphYMin <= every sample of the sequence <= graphYMax, and a plot
\* call never increases graphYMin nor decreases graphYMax.
C7_ScaleBounds ==
    /\ \A i \in 1 .. Len(plotArray) : graphYMin <= plotArray[i] /\ plotArray[i] <= graphYMax
    /\ graphYMin <= prevMin
    /\ graphYMax >= prevMax

C7_Witness ==
    /\ Len(plotArray) = 127
    /\ graphYMax > 100
    /\ graphYMin < 0
    /\ prevMax > 100

----------------------------------------------------------------------------
(* Properties under SpecShape *)

\* The byte of a page whose set bits are the rows of rows in that page
PageBits(page, rows) ==
    LET bit(b) == IF (page * 8 + b) \in rows THEN Shl(b) ELSE 0
    IN  bit(0) + bit(1) + bit(2) + bit(3) + bit(4) + bit(5) + bit(6) + bit(7)

\* Every pixel byte (bytes 1 .. 1024) of the framebuffer is zero
IsCleared(buf) == \A i \in 1 .. SCREEN_BUF_LEN - 1 : BufGet(buf, i) = 0

\* Column c of page page when exactly the border of the rectangle is set
BorderByte(c, page, width, height, x, y) ==
    IF c < x \/ c > x + width - 1 THEN 0
    ELSE IF c = x \/ c = x + width - 1 THEN PageBits(page, y .. (y + height - 1))
    ELSE PageBits(page, {y, y + height - 1})

IsFittingRect(op) ==
    /\ op.op = "drawRect"
    /\ op.args[1] >= 1 /\ op.args[2] >= 1
    /\ op.args[3] + op.args[1] <= 128
    /\ op.args[4] + op.args[2] <= 64

\* C11: drawRect(width, height, x, y) of a rectangle that fits on the panel,
\* on a cleared framebuffer, sets exactly the pixels of the rectangle's
\* border: every interior pixel and every pixel outside stays clear.
C11_RectBorderOnly ==
    (calls > 0 /\ IsFittingRect(LastOp) /\ IsCleared(prevBuf)) =>
        \A i \in 1 .. SCREEN_BUF_LEN - 1 :
            BufGet(screenBuf, i) =
                BorderByte((i - 1) % 128, (i - 1) \div 128,
                           LastOp.args[1], LastOp.args[2], LastOp.args[3], LastOp.args[4])

\* The 3 x 9 rectangle at (7, 6): its left side spans pages 0 and 1, its
\* interior column 8 holds only the top and bottom rows
C11_Witness ==
    /\ calls = 2
    /\ recent[1].op = "clear"
    /\ LastOp = Call("drawRect", <<3, 9, 7, 6>>, -1)
    /\ BufGet(screenBuf, 8) = 192
    /\ BufGet(screenBuf, 9) = 64
    /\ BufGet(screenBuf, 128 + 9) = 64

\* Column c of page page of the pixels a line covers
LineByte(c, page, lineDirection, len, x, y) ==
    IF lineDirection = 0
    THEN IF c >= x /\ c <= x + len - 1 THEN PageBits(page, {y}) ELSE 0
    ELSE IF c = x THEN PageBits(page, y .. (y + Min(len, 63) - 1)) ELSE 0

IsPanelLine(op) ==
    /\ op.op = "drawLine"
    /\ op.args[2] >= 0
    /\ IF op.args[1] = 0 THEN op.args[3] + op.args[2] <= 128
       ELSE op.args[4] + Min(op.args[2], 63) <= 64

\* C12: drawLine(horizontal, len, x, y) sets exactly the pixels
\* (x .. x+len-1, y) and drawLine(vertical, len, x, y) exactly the pixels
\* (x, y .. y+min(len,63)-1): afterwards these pixels are set and every
\* other pixel is as it was before the call.
C12_LinePixels ==
    (calls > 0 /\ IsPanelLine(LastOp)) =>
        \A i \in 1 .. SCREEN_BUF_LEN - 1 :
            LET mask == LineByte((i - 1) % 128, (i - 1) \div 128,
                                 LastOp.args[1], LastOp.args[2], LastOp.args[3], LastOp.args[4])
            IN  BufGet(screenBuf, i) =
                    (IF mask = 0 THEN BufGet(prevBuf, i) ELSE BitOr(BufGet(prevBuf, i), mask))

\* A vertical line of requested length 100 from (127, 1), drawn over the
\* bottom row: 63 pixels, rows 1 .. 63
C12_Witness ==
    /\ calls = 2
    /\ recent[1] = Call("drawLine", <<0, 128, 0, 63>>, -1)
    /\ LastOp = Call("drawLine", <<1, 100, 127, 1>>, -1)
    /\ BufGet(screenBuf, 128) = 254
    /\ BufGet(screenBuf, 7 * 128 + 128) = 255
    /\ BufGet(screenBuf, 7 * 128 + 127) = 128

----------------------------------------------------------------------------
(* Properties under SpecAlign *)

\* The start column the alignment rule gives a line of length len that is
\* the lineIndex-th output line (0 = Left, 1 = Centre, 2 = Right)
AlignedColumn(align, len, lineIndex) ==
    IF align = 1 THEN (NUMBER_OF_CHAR_PER_LINE - len + 1) \div 2
    ELSE IF align = 2 THEN (NUMBER_OF_CHAR_PER_LINE - len - 1) + lineIndex
    ELSE 0

\* C13: every output line show produces, the lines of a wrapped text
\* included, starts at character column 0 for Left, round((26 - L) / 2) for
\* Centre and (26 - L - 1) + line index for Right, L being the length of the
\* output line.
C13_EveryLineAligned ==
    (calls > 0 /\ LastOp.op = "show") =>
        \A k \in 1 .. Len(lines) :
            lines[k].x = AlignedColumn(LastOp.args[3], Len(lines[k].text), k - 1)

----------------------------------------------------------------------------
(* Properties under SpecLine *)

\* C14: clearLine(line), for every line 1 .. 8, renders exactly 26 space
\* glyphs as one output line on row line - 1, and afterwards all 128 column
\* bytes of that row's page of the framebuffer are zero.
C14_ClearLineZeroesPage ==
    (calls > 0 /\ LastOp.op = "clearLine") =>
        /\ Len(lines) = 1
        /\ lines[1].row = LastOp.args[1] - 1
        /\ lines[1].text = [i \in 1 .. 26 |-> 32]
        /\ \A c \in 0 .. 127 : BufGet(screenBuf, (LastOp.args[1] - 1) * 128 + c + 1) = 0

----------------------------------------------------------------------------
(* Properties under SpecMode *)

\* The command byte of a display-mode call
ModeCommand(op) ==
    IF op.op = "invert" THEN (IF op.args[1] THEN 167 ELSE 166)
    ELSE (IF op.args[1] THEN 175 ELSE 174)

\* C15: on an initialised display invert(b) and controlDisplayOnOff(b) each
\* issue exactly one bus write, the one-byte command 0xA7 / 0xA6 (invert
\* true / false) or 0xAF / 0xAE (display on / off), and leave every
\* framebuffer byte, the sample sequence and the graph bounds unchanged.
C15_ModeCommandsFrame ==
    [][(/\ calls' = calls + 1
        /\ LastOp'.op \in {"invert", "controlDisplayOnOff"}
        /\ initialised = 1) =>
           /\ Len(bus') = 1
           /\ bus'[1].data = <<0, ModeCommand(LastOp')>>
           /\ screenBuf' = screenBuf
           /\ plotArray' = plotArray
           /\ graphYMin' = graphYMin
           /\ graphYMax' = graphYMax]_vars

\* invert(true) after a pixel was set and a value above the scale plotted
C15_Witness ==
    /\ calls = 3
    /\ LastOp.op = "invert" /\ LastOp.args[1]
    /\ wasInit = 1
    /\ plotArray = <<150>>
    /\ graphYMax = 150
    /\ TestBit(BufGet(screenBuf, 3 + 128 + 1), 2)
    /\ bus = <<[addr |-> DISPLAY_ADDR_1, data |-> <<0, 167>>]>>

----------------------------------------------------------------------------
(* Properties under SpecAlarm *)

\* C16: whenever backgroundAlarmCheck finds the clock's hour and minute equal
\* to those of the set alarm, the handler registered with onAlarmTrigger is
\* invoked, in every reachable state, also after simpleAlarmCheck was
\* called.
C16_TriggerInvokesHandler ==
    (polled.matched /\ polled.registered) => polled.invoked

----------------------------------------------------------------------------
(* Properties under SpecLog *)

\* C17: after n logData calls (n >= 1, no erase) sendAllData writes to serial
\* the header, project-info and column-heading blocks and then the contents
\* of exactly the n data blocks 24 .. 24 + n - 1, in order.
C17_SendsEveryEntry ==
    (logOp = "sendAllData" /\ nLogs >= 1) =>
        serialWrites =
            <<eepromBlocks[21], eepromBlocks[22], eepromBlocks[23]>>
            \o [i \in 1 .. nLogs |-> eepromBlocks[firstDataBlock + i - 1]]

\* The readings of the k-th logData call for the included columns, each
\* followed by the delimiter
RECURSIVE EntryOfCall(_, _)
EntryOfCall(i, k) ==
    IF i > Len(Fields) THEN << >>
    ELSE (IF inc[Fields[i]] THEN <<Tok(Fields[i], k), Tok(delimiter, 0)>> ELSE << >>)
         \o EntryOfCall(i + 1, k)

\* C18: each logData call writes to block 24 + entryNum one entry made only
\* of the readings captured in that call for the included columns, each
\* followed by the delimiter: no data of earlier logData calls.
C18_EntryHoldsOneCall ==
    (logOp = "logData") =>
        eepromBlocks[firstDataBlock + nLogs - 1] = EntryOfCall(1, nLogs) \o <<CRLF>>

----------------------------------------------------------------------------
(* Properties of the lifecycle *)

\* The bus writes of an initialisation at address addr: the probe, the
\* configuration sequence, set_pos(0, 0) and the flush of the cleared buffer
InitWrites(addr) ==
    <<[addr |-> addr, data |-> ProbeBytes]>>
    \o [k \in 1 .. Len(ConfigSequence) |-> [addr |-> addr, data |-> <<0>> \o ConfigSequence[k]]]
    \o <<[addr |-> addr, data |-> <<0, 176>>], [addr |-> addr, data |-> <<0, 0>>],
         [addr |-> addr, data |-> <<0, 16>>],
         [addr |-> addr, data |-> [j \in 1 .. SCREEN_BUF_LEN |-> IF j = 1 THEN 64 ELSE 0]]>>

\* C19 (under Spec): when the probe is acknowledged, initDisplay(screen)
\* issues the configuration sequence (first command 0xAE, last 0xAF), then
\* zeroes the framebuffer and flushes the 1025-byte buffer; every one of
\* these writes, the flush included, goes to the address the screen
\* argument selects, and initialised is true on return.
C19_InitOnSelectedAddress ==
    (calls > 0 /\ LastOp.op = "initDisplay" /\ setScreenAddr(LastOp.screen) \in present) =>
        /\ ConfigSequence[1] = <<174>>
        /\ ConfigSequence[Len(ConfigSequence)] = <<175>>
        /\ bus = InitWrites(setScreenAddr(LastOp.screen))
        /\ initialised = 1

\* The configuration sequence is on the bus ws, at address addr
HasConfigAt(ws, addr) ==
    \E s \in 0 .. (Len(ws) - Len(ConfigSequence)) :
        \A k \in 1 .. Len(ConfigSequence) :
            ws[s + k] = [addr |-> addr, data |-> <<0>> \o ConfigSequence[k]]

\* C20 (under SpecSelect): no operation sets initialised back to false, and
\* on an initialised display a lazily initialising call with screen
\* selector 2 runs no initialisation: no probe and no configuration
\* sequence is written to the secondary address.
C20_InitialisedIsSticky ==
    [][/\ initialised = 1 => initialised' = 1
       /\ (/\ initialised = 1
           /\ calls' = calls + 1
           /\ LastOp'.op \in LazyEntryPoints
           /\ LastOp'.screen = 2) =>
              /\ initEnd' = 0
              /\ ~HasConfigAt(bus', DISPLAY_ADDR_2)]_vars

\* setPixel with selector 2 after the primary display was initialised
C20_Witness ==
    /\ calls = 2
    /\ recent[1] = Call("initDisplay", << >>, 1)
    /\ LastOp = Call("setPixel", <<3, 10>>, 2)
    /\ wasInit = 1
    /\ initialised = 1
    /\ initEnd = 0
    /\ Len(bus) = 4
    /\ bus[1].addr = DISPLAY_ADDR_2

----------------------------------------------------------------------------
(* Properties of the bus traffic of show *)

\* The framebuffer bytes of output line ln: from its start column 5x of
\* page row to the last glyph column written for it
LineRange(buf, ln) ==
    SubSeq(buf, 5 * ln.x + 128 * ln.row + 2, 5 * ln.x + 128 * ln.row + 1 + 5 * Len(ln.text))

\* C21 (under SpecShow): for each output line show issues exactly one bulk
\* data write, and its payload is exactly the framebuffer bytes from the
\* start column of the line through its last glyph column, on every row.
C21_PayloadIsLineRange ==
    (calls > 0 /\ wasInit = 1 /\ LastOp.op = "show") =>
        /\ Len(bus) = 4 * Len(lines)
        /\ \A k \in 1 .. Len(lines) :
               /\ IsPosition(SubSeq(bus, 4 * k - 3, 4 * k - 1), 5 * lines[k].x, lines[k].row)
               /\ bus[4 * k].data = <<64>> \o LineRange(screenBuf, lines[k])

----------------------------------------------------------------------------
(* Properties of the redraw of plot *)

\* The graph band
GraphRows == GRAPH_Y_MAX_LOCATION .. GRAPH_Y_MIN_LOCATION

\* The rows of rows whose pixel is set in column c of the framebuffer
SetRows(buf, c, rows) ==
    {r \in rows : TestBit(BufGet(buf, c + (r \div 8) * 128 + 1), r % 8)}

\* The pixel row sample i (from 0) of the sequence is mapped to
MappedRow(i) ==
    LET q == PinsMap(plotArray[i + 1], graphYMin, graphYMax,
                     GRAPH_Y_MIN_LOCATION, GRAPH_Y_MAX_LOCATION)
    IN  q[1] \div q[2]

\* C22 (under SpecPlot): after a plot call every column i > 0 has, in the
\* rows 20..63, exactly the rows from the smaller to the larger of the
\* previous and the current mapped row set, both included (one row when
\* they are equal); column 0 has exactly the pixel of its own mapped row.
C22_SegmentJoinsBothRows ==
    (nPlots > 0 /\ wasInit = 1 /\ graphYMax > graphYMin) =>
        \A i \in 0 .. (Len(plotArray) - 1) :
            SetRows(screenBuf, i, GraphRows) =
                IF i = 0 THEN {MappedRow(0)}
                ELSE Min(MappedRow(i - 1), MappedRow(i)) .. Max(MappedRow(i - 1), MappedRow(i))

\* The mapped value of the newest sample of the sequence
NewestYPlot ==
    PinsMap(plotArray[Len(plotArray)], graphYMin, graphYMax,
            GRAPH_Y_MIN_LOCATION, GRAPH_Y_MAX_LOCATION)

\* C23 (under SpecPlot): the redraw loop of a plot call handles exactly the
\* indices 0 .. length - 1 of the sample sequence as it is after the append,
\* the newest sample last, and reads no index at or beyond the length, also
\* at the capacity of 127: the last value it mapped, which previousYPlot
\* keeps, is that of the newest sample, and no column at or beyond the
\* length is redrawn.
C23_RedrawWithinSequence ==
    (nPlots > 0 /\ wasInit = 1) =>
        /\ previousYPlot = NewestYPlot
        /\ \A c \in Len(plotArray) .. 127 :
               SetRows(screenBuf, c, GraphRows) = SetRows(prevBuf, c, GraphRows)

\* C24 (under SpecPlot): a plot call changes framebuffer bits only in the
\* rows 20..63 of the columns 0..N that hold a sample, N the index of the
\* newest sample: every pixel of the rows 0..19 and every pixel of a column
\* beyond N keeps the value it had before the call.
C24_PlotFrame ==
    (nPlots > 0 /\ wasInit = 1 /\ LastOp.op = "plot") =>
        /\ BufGet(screenBuf, 0) = BufGet(prevBuf, 0)
        /\ \A c \in 0 .. 127 :
               /\ SetRows(screenBuf, c, 0 .. 19) = SetRows(prevBuf, c, 0 .. 19)
               /\ c > Len(plotArray) - 1 =>
                      SetRows(screenBuf, c, 0 .. 63) = SetRows(prevBuf, c, 0 .. 63)

\* C25 (under SpecPlot): on an initialised display a plot call issues
\* exactly one bulk data write, the whole 1025-byte framebuffer as the call
\* leaves it (so after every framebuffer change of the call), preceded only
\* by the positioning to column 0 of page 0; no data write per column.
C25_PlotFlushesOnce ==
    (nPlots > 0 /\ wasInit = 1 /\ LastOp.op = "plot") =>
        /\ Len(bus) = 4
        /\ IsPosition(bus, 0, 0)
        /\ Len(DataWrites(bus)) = 1
        /\ Len(bus[4].data) = SCREEN_BUF_LEN
        /\ bus[4].data = screenBuf
        /\ bus[4].data[1] = 64

\* A plot call that changed the framebuffer and flushed it
C25_Witness ==
    /\ nPlots = 3
    /\ wasInit = 1
    /\ LastOp.op = "plot"
    /\ screenBuf # prevBuf
    /\ Len(bus) = 4
    /\ bus[4].data = screenBuf

----------------------------------------------------------------------------
(* Properties under SpecLast *)

IsLongLastLineShow(op) ==
    /\ op.op = "show"
    /\ op.args[2] = 8
    /\ Len(op.args[1]) + 1 > NUMBER_OF_CHAR_PER_LINE

\* C26: show started on line 8 (row 7) with a text that, with the appended
\* space, is longer than 26 characters does no word-wrap: it produces
\* exactly one output line, the first 25 characters of the text, rendered
\* on row 7.
C26_LastLineTruncates ==
    (calls > 0 /\ IsLongLastLineShow(LastOp)) =>
        /\ Len(lines) = 1
        /\ lines[1].row = 7
        /\ lines[1].text = SubSeq(LastOp.args[1], 1, 25)
        /\ Len(DataWrites(OwnWrites)) = 1
        /\ SubSeq(screenBuf, 7 * 128 + 5 * lines[1].x + 2, 7 * 128 + 5 * lines[1].x + 126)
               = GlyphBytes(SubSeq(LastOp.args[1], 1, 25))

\* Two words of 15 characters on line 8: the line is the first word, the
\* space and nine characters of the second
C26_Witness ==
    /\ calls > 0
    /\ LastOp.op = "show"
    /\ LastOp.args = <<Words(<<15, 15>>), 8, -1>>
    /\ Len(lines) = 1
    /\ lines[1] = [row |-> 7, x |-> 0, text |-> Rep(65, 15) \o <<SpaceChar>> \o Rep(66, 9)]

----------------------------------------------------------------------------
(* Properties of the framing of bus writes *)

\* A command write: control byte 0x00 and one to three bytes
IsCommandWrite(w) == Len(w.data) \in 2 .. 4 /\ w.data[1] = 0

\* C27 (under Spec): in every reachable state every bus write of a display
\* call is a command write (0x00 and 1 to 3 bytes) or a bulk data write
\* whose first byte is 0x40; every full-buffer flush of clear, refresh or
\* plot carries 0x40 as byte 0 of the 1025 bytes.
C27_WritesAreFramed ==
    \A k \in 1 .. Len(bus) :
        /\ IsCommandWrite(bus[k]) \/ IsDataWrite(bus[k])
        /\ Len(bus[k].data) = SCREEN_BUF_LEN => bus[k].data[1] = 64

----------------------------------------------------------------------------
(* Properties of the pixel primitives *)

IsPixelCall(op) == op.op \in {"setPixel", "clearPixel"}

\* The byte a pixel call leaves at the pixel's index, given the byte before
PixelByte(op, d) ==
    IF op.op = "setPixel"
    THEN (IF TestBit(d, op.args[2] % 8) THEN d ELSE d + Shl(op.args[2] % 8))
    ELSE (IF TestBit(d, op.args[2] % 8) THEN d - Shl(op.args[2] % 8) ELSE d)

----------------------------------------------------------------------------
(* Properties of the framebuffer range of a text line *)

IsLineCall(op) ==
    \/ op.op = "clearLine"
    \/ op.op = "show" /\ Len(op.args[1]) <= 25

\* The line number 1 .. 8 a show or clearLine call names
LineOf(op) ==
    IF op.op = "clearLine" THEN op.args[1]
    ELSE IF Falsy(op.args[2]) THEN 1 ELSE op.args[2]

\* C29 (under SpecLine): show of a text of at most 25 characters on line L
\* in 1..8, with any alignment, and clearLine(L) write only the framebuffer
\* indices (L-1)*128+1 .. (L-1)*128+128: no byte of another line's page is
\* changed and no index outside the 1025-byte buffer is written.
C29_LineStaysInPage ==
    (calls > 0 /\ wasInit = 1 /\ IsLineCall(LastOp) /\ LineOf(LastOp) \in 1 .. 8) =>
        /\ \A k \in 1 .. Len(lines) :
               /\ lines[k].row = LineOf(LastOp) - 1
               /\ GlyphIndex(lines[k].x, lines[k].row, 0, 0) >= (LineOf(LastOp) - 1) * 128 + 1
               /\ GlyphIndex(lines[k].x, lines[k].row, Len(lines[k].text) - 1, 4)
                      <= (LineOf(LastOp) - 1) * 128 + 128
        /\ \A i \in 0 .. (SCREEN_BUF_LEN - 1) :
               (i < (LineOf(LastOp) - 1) * 128 + 1 \/ i > (LineOf(LastOp) - 1) * 128 + 128) =>
                   BufGet(screenBuf, i) = BufGet(prevBuf, i)

----------------------------------------------------------------------------
(* Properties of the background tasks of the alarm *)

\* The polling loops alive: those at their loop test or in the pause of
\* 1000 ms, and those inside backgroundAlarmCheck at its pause of 2500 ms
PollingTasks == pollers + Len(paused)

\* C30 (under SpecAlarm): at most one background polling task (the loop
\* simpleAlarmSet starts, which calls backgroundAlarmCheck once per second)
\* is alive at any time, for every interleaving of simpleAlarmSet,
\* simpleAlarmOff, the automatic re-arm of a repeating alarm and the
\* passage of clock time.
C30_OnePollingTask == PollingTasks <= 1

====
